---- MODULE Spec2Model ----
(***************************************************************************)
(* KYI investor-network intelligence: the recommendation pipeline, the fit *)
(* score, the relationship strength engine and the overlap analytics,      *)
(* modelled from src/kyi/*.py.                                             *)
(*                                                                         *)
(* Text is modelled by TLA+ strings over the ASCII characters of CodeOrder *)
(* (on which Unicode NFKD decomposition is the identity).  Point values    *)
(* that the code keeps as floats with a fractional part of .0 or .5 are    *)
(* kept in HALF POINTS (twice the value), so that they stay integers.      *)
(***************************************************************************)
EXTENDS Integers, Sequences, FiniteSets, TLC

VARIABLES
    investors,      \* table investors, in rowid order
    connections,    \* table connections, in rowid order
    interactions,   \* table interactions, in rowid order
    status_history, \* table investor_status_history, in rowid order
    relationships,  \* table relationships, in rowid order
    investor_behavior_profiles, \* table investor_behavior_profiles, in rowid order
    scenario_runs,  \* table scenario_runs, in rowid order
    term_sheets,    \* table term_sheets, in rowid order
    investor_clause_patterns, \* table investor_clause_patterns, in rowid order
    network_nodes,  \* table network_nodes, in rowid order (committed rows)
    network_edges,  \* table network_edges, in rowid order (committed rows)
    sqlite_sequence, \* the largest id given so far in the two AUTOINCREMENT tables
    rebuild,        \* the access-map rebuild in flight, between its two commits
    now,            \* the clock (datetime.utcnow()), as a day number
    call,           \* the arguments of the latest call
    ret             \* what the latest call returned

\* The tables of the forecasting engine and of the access map.
forecastVars == <<investor_behavior_profiles, scenario_runs, term_sheets,
                  investor_clause_patterns>>

graphVars == <<network_nodes, network_edges, sqlite_sequence, rebuild>>

vars == <<investors, connections, interactions, status_history, relationships,
          forecastVars, graphVars, now, call, ret>>

\* Python's None / SQL NULL, of a text value.
None == "<None>"

\* SQL NULL of an integer id column; AUTOINCREMENT ids start at 1.
NoId == 0

\* None of a timestamp; day numbers are not negative.
NoTs == -1

\* The day the clock shows when the tables are first looked at.
StartDay == 200

\* Before the first call: no arguments, no return value.
NoCall == [ op |-> "none" ]

\* No access-map rebuild is between its commits.
NoRebuild == [ company_id |-> NoId ]

\* The tables of the forecasting engine and of the access map, all empty.
NoForecastRows ==
    /\ investor_behavior_profiles = <<>>
    /\ scenario_runs = <<>>
    /\ term_sheets = <<>>
    /\ investor_clause_patterns = <<>>

NoGraphRows ==
    /\ network_nodes = <<>>
    /\ network_edges = <<>>
    /\ sqlite_sequence = [ network_nodes |-> 0, network_edges |-> 0 ]
    /\ rebuild = NoRebuild

----------------------------------------------------------------------------
(* Strings                                                                 *)

\* The characters of the model in code-point order.
CodeOrder == " ',-./0123456789ABCDEFGHIJKLMNOPQRSTUVWXYZ_abcdefghijklmnopqrstuvwxyz|"

UpperChars == "ABCDEFGHIJKLMNOPQRSTUVWXYZ"

LowerChars == "abcdefghijklmnopqrstuvwxyz"

DigitChars == "0123456789"

Ch(s, i) == SubSeq(s, i, i)

Chars(s) == { Ch(s, i) : i \in 1..Len(s) }

CharSet == Chars(CodeOrder)

\* ord(c)
OrdOf == [c \in CharSet |-> CHOOSE i \in 1..Len(CodeOrder) : Ch(CodeOrder, i) = c]

\* str.lower() on one character
LowerOf ==
    [c \in CharSet |->
        IF c \in Chars(UpperChars)
        THEN Ch(LowerChars, CHOOSE i \in 1..26 : Ch(UpperChars, i) = c)
        ELSE c]

RECURSIVE Lower(_)
Lower(s) == IF s = "" THEN "" ELSE LowerOf[Ch(s, 1)] \o Lower(SubSeq(s, 2, Len(s)))

IsSpace(c) == c = " "

\* the characters that regex \w matches
WordChars == Chars(UpperChars) \cup Chars(LowerChars) \cup Chars(DigitChars) \cup {"_"}

IsWord(c) == c \in WordChars

RECURSIVE LStrip(_)
LStrip(s) == IF s # "" /\ IsSpace(Ch(s, 1)) THEN LStrip(SubSeq(s, 2, Len(s))) ELSE s

RECURSIVE RStrip(_)
RStrip(s) == IF s # "" /\ IsSpace(Ch(s, Len(s))) THEN RStrip(SubSeq(s, 1, Len(s) - 1)) ELSE s

\* str.strip()
Strip(s) == RStrip(LStrip(s))

\* `sub in s`
Contains(sub, s) ==
    \/ sub = ""
    \/ \E i \in 1..(Len(s) - Len(sub) + 1) : SubSeq(s, i, i + Len(sub) - 1) = sub

\* a < b on str (code-point lexicographic)
RECURSIVE StrLess(_, _)
StrLess(a, b) ==
    IF b = "" THEN FALSE
    ELSE IF a = "" THEN TRUE
    ELSE IF Ch(a, 1) # Ch(b, 1) THEN OrdOf[Ch(a, 1)] < OrdOf[Ch(b, 1)]
    ELSE StrLess(SubSeq(a, 2, Len(a)), SubSeq(b, 2, Len(b)))

\* re.sub(r"[^\w\s]", "", s)
RECURSIVE RemovePunct(_)
RemovePunct(s) ==
    IF s = "" THEN ""
    ELSE (IF IsWord(Ch(s, 1)) \/ IsSpace(Ch(s, 1)) THEN Ch(s, 1) ELSE "")
         \o RemovePunct(SubSeq(s, 2, Len(s)))

\* str.split(sep) for the one-character separators in seps: the pieces between
\* separators, empty pieces included.
RECURSIVE SplitAcc(_, _, _)
SplitAcc(s, seps, cur) ==
    IF s = "" THEN <<cur>>
    ELSE IF Ch(s, 1) \in seps
         THEN <<cur>> \o SplitAcc(SubSeq(s, 2, Len(s)), seps, "")
         ELSE SplitAcc(SubSeq(s, 2, Len(s)), seps, cur \o Ch(s, 1))

SplitOn(s, seps) == SplitAcc(s, seps, "")

\* str.split(): the maximal runs of non-whitespace.
SplitWs(s) == SelectSeq(SplitOn(s, {" "}), LAMBDA p : p # "")

RECURSIVE JoinWith(_, _)
JoinWith(parts, sep) ==
    IF Len(parts) = 0 THEN ""
    ELSE IF Len(parts) = 1 THEN parts[1]
    ELSE parts[1] \o sep \o JoinWith(Tail(parts), sep)

Range(f) == { f[i] : i \in DOMAIN f }

----------------------------------------------------------------------------
(* normalization.py                                                        *)

\* Lowercase, strip punctuation, drop single-character tokens that are
\* neither first nor last, remove the spaces.
normalize_name(name) ==
    IF name = None \/ name = "" THEN ""
    ELSE LET s0 == RemovePunct(Lower(Strip(name)))
             parts == SplitWs(s0)
             keep == { i \in 1..Len(parts) :
                         ~(Len(parts[i]) = 1 /\ i > 1 /\ i < Len(parts)) }
             filtered == [ j \in 1..Cardinality(keep) |->
                             parts[CHOOSE i \in keep :
                                     Cardinality({k \in keep : k < i}) = j - 1] ]
         IN  JoinWith(filtered, "")


\* Token set of a location: the whole lowercased string and each comma part.
tokenize_location(location) ==
    IF location = None \/ location = "" THEN {}
    ELSE LET s == Lower(Strip(location))
         IN  IF s = "" THEN {}
             ELSE {s} \cup ({ Strip(p) : p \in Range(SplitOn(s, {","})) } \ {""})

\* Industry tokens: split on / , | and keep the lowercased parts longer than 1.
tokenize_industry(text) ==
    IF text = None \/ text = "" THEN {}
    ELSE { t \in { Lower(Strip(p)) : p \in Range(SplitOn(text, {"/", ",", "|"})) } :
             Len(t) > 1 }

FIRM_TYPE_TOKENS ==
    { "capital", "partners", "ventures", "venture", "equity", "fund",
      "group", "holdings", "investments", "private equity", "vc",
      "venture capital", "growth", "advisors", "advisory" }

TITLE_PATTERNS ==
    { "partner", "principal", "vp", "vice president", "md", "managing director",
      "director", "investor", "associate", "analyst", "head of", "managing partner" }

extract_firm_type_tokens(company_name) ==
    IF company_name = None \/ company_name = "" THEN {}
    ELSE { t \in FIRM_TYPE_TOKENS : Contains(t, Lower(Strip(company_name))) }

matches_title_pattern(title) ==
    IF title = None \/ title = "" THEN FALSE
    ELSE \E p \in TITLE_PATTERNS : Contains(p, Lower(Strip(title)))

----------------------------------------------------------------------------
(* recommendations.py                                                      *)

S_INDUSTRY == "s_industry"

S_LOCATION == "s_location"

S_FIRM_TYPE == "s_firm_type"

S_TITLE_PATTERN == "s_title_pattern"

S_COMPANY_IN_NETWORK == "s_company_in_network"

SIGNAL_CATEGORIES ==
    { S_INDUSTRY, S_LOCATION, S_FIRM_TYPE, S_TITLE_PATTERN, S_COMPANY_IN_NETWORK }

MIN_SIGNAL_CATEGORIES == 2

\* FUZZY_NAME_THRESHOLD = 0.88, in hundredths
FUZZY_NAME_THRESHOLD == 88

\* `x or ""`
OrEmpty(x) == IF x = None THEN "" ELSE x

\* SELECT * FROM investors WHERE company_id = ? ORDER BY full_name
\* (rows with equal names in rowid order)
load_company_investors(company_id) ==
    LET rows == SelectSeq(investors, LAMBDA r : r.company_id = company_id)
        pos(i) == 1 + Cardinality({ j \in DOMAIN rows :
                        \/ StrLess(rows[j].full_name, rows[i].full_name)
                        \/ (rows[j].full_name = rows[i].full_name /\ j < i) })
    IN  [ p \in DOMAIN rows |-> rows[CHOOSE i \in DOMAIN rows : pos(i) = p] ]

\* SELECT c.* FROM connections c WHERE c.investor_id IN (...) AND full_name
\* IS NOT NULL AND full_name != ''.  The rows come in the order of the table.
load_connections_for_investors(investor_ids) ==
    IF investor_ids = <<>> THEN <<>>
    ELSE SelectSeq(connections,
                   LAMBDA c : /\ c.investor_id \in Range(investor_ids)
                              /\ c.full_name # None
                              /\ c.full_name # "")

build_company_profile(invs) ==
    [ industry_tokens |->
        UNION { tokenize_industry(inv.industry) : inv \in Range(invs) },
      location_tokens |->
        UNION { IF Strip(OrEmpty(inv.location)) # ""
                THEN tokenize_location(inv.location) ELSE {} : inv \in Range(invs) },
      firm_type_tokens |->
        UNION { extract_firm_type_tokens(inv.firm) : inv \in Range(invs) },
      title_patterns |->
        { Lower(Strip(inv.title)) : inv \in { i \in Range(invs) : OrEmpty(i.title) # "" } },
      investor_firms_lower |->
        { Lower(Strip(inv.firm)) : inv \in { i \in Range(invs) : OrEmpty(i.firm) # "" } } ]

\* company (lowercase) -> number of connections at that company
_connection_company_counts(conns) ==
    LET keys == { Lower(Strip(OrEmpty(conns[i].company))) : i \in DOMAIN conns } \ {""}
    IN  [ k \in keys |->
            Cardinality({ i \in DOMAIN conns :
                            Lower(Strip(OrEmpty(conns[i].company))) = k }) ]


Min(a, b) == IF a <= b THEN a ELSE b

Max(a, b) == IF a >= b THEN a ELSE b

\* str(n) for n >= 0
RECURSIVE IntToStr(_)
IntToStr(n) ==
    IF n < 10 THEN Ch(DigitChars, n + 1)
    ELSE IntToStr(n \div 10) \o Ch(DigitChars, (n % 10) + 1)

\* The first element, in the iteration order `order`, that is a substring of text.
FirstContained(order, text) ==
    LET idx == { i \in DOMAIN order : Contains(order[i], text) }
    IN  IF idx = {} THEN None ELSE order[CHOOSE i \in idx : \A j \in idx : i <= j]

\* The display name of a connection: full_name, else "first last"; "" if none.
ConnectionName(conn) ==
    LET fn == Strip(OrEmpty(conn.full_name))
    IN  IF fn # "" THEN fn
        ELSE Strip(OrEmpty(conn.first_name) \o " " \o OrEmpty(conn.last_name))

\* One iteration of score_candidates' loop: the scored item of one connection.
\* ind_order and ft_order are the iteration orders of the sets industry_tokens
\* and FIRM_TYPE_TOKENS (Python leaves the order of a set of str unspecified).
ScoreConnection(conn, company_profile, company_connection_counts, ind_order, ft_order) ==
    LET company  == Strip(OrEmpty(conn.company))
        position == Strip(OrEmpty(conn.position))
        location == Strip(OrEmpty(conn.location))
        linkedin_url == Strip(OrEmpty(conn.linkedin_url))
        common_companies == { k \in DOMAIN company_connection_counts :
                                company_connection_counts[k] >= 2 }
        text == Lower(" " \o position \o " " \o company \o " ")
        cl   == Lower(company)
        tok  == FirstContained(ind_order, text)
        ind  == tok # None
        loc  == /\ location # ""
                /\ company_profile.location_tokens # {}
                /\ tokenize_location(location) \cap company_profile.location_tokens # {}
        ft   == IF company # "" THEN FirstContained(ft_order, cl) ELSE None
        sim  == /\ company # ""
                /\ \E firm \in company_profile.investor_firms_lower :
                      Len(firm) > 4 /\ (Contains(firm, cl) \/ Contains(cl, firm))
        ttl  == position # "" /\ matches_title_pattern(position)
        net  == company # "" /\ cl \in common_companies
    IN  [ candidate |->
            [ name |-> ConnectionName(conn), company |-> company,
              position |-> position, location |-> location,
              linkedin_url |-> linkedin_url,
              source_investor_id |-> conn.investor_id ],
          score |->   (IF ind THEN 4 ELSE 0) + (IF loc THEN 3 ELSE 0)
                    + (IF ft # None THEN 3 ELSE 0) + (IF sim THEN 2 ELSE 0)
                    + (IF ttl THEN 3 ELSE 0) + (IF net THEN 5 ELSE 0),
          signals |->      (IF ind THEN {S_INDUSTRY} ELSE {})
                      \cup (IF loc THEN {S_LOCATION} ELSE {})
                      \cup (IF ft # None \/ sim THEN {S_FIRM_TYPE} ELSE {})
                      \cup (IF ttl THEN {S_TITLE_PATTERN} ELSE {})
                      \cup (IF net THEN {S_COMPANY_IN_NETWORK} ELSE {}),
          reasons |->
               (IF ind THEN <<"Industry: " \o tok>> ELSE <<>>)
            \o (IF loc THEN <<"Location match">> ELSE <<>>)
            \o (IF ft # None THEN <<"Firm type: " \o ft>> ELSE <<>>)
            \o (IF ft = None /\ sim THEN <<"Similar to firm">> ELSE <<>>)
            \o (IF ttl THEN <<"Investor-like title">> ELSE <<>>)
            \o (IF net
                THEN <<"Company in network ("
                       \o IntToStr(company_connection_counts[cl]) \o " connections)">>
                ELSE <<>>) ]

\* Every connection with a derivable name, scored, in the order of the input.
score_candidates(conns, company_profile, company_connection_counts, ind_order, ft_order) ==
    LET named == SelectSeq(conns, LAMBDA c : ConnectionName(c) # "")
    IN  [ i \in DOMAIN named |->
            ScoreConnection(named[i], company_profile, company_connection_counts,
                            ind_order, ft_order) ]

\* A gate that lets every candidate through.
GateKeepsAll(candidates, min_categories) == candidates

\* apply_multi_signal_gate
apply_multi_signal_gate(candidates, min_categories) ==
    SelectSeq(candidates, LAMBDA c : Cardinality(c.signals) >= min_categories)

\* The identity by which run_pipeline merges scored items.
MergeKey(c) == normalize_name(c.name)

\* existing["reasons"] after appending the reasons of rs that it lacks
RECURSIVE AppendNew(_, _)
AppendNew(reasons, rs) ==
    IF Len(rs) = 0 THEN reasons
    ELSE AppendNew(IF rs[1] \in Range(reasons) THEN reasons ELSE Append(reasons, rs[1]),
                   Tail(rs))

\* A merge that keeps the score of the first connection seen.
MergeItemKeepsFirstScore(by_key, item) ==
    LET c   == item.candidate
        key == normalize_name(c.name)
        sid == c.source_investor_id
        sids == IF sid # 0 THEN {sid} ELSE {}
        at  == { i \in DOMAIN by_key : by_key[i].key = key }
    IN  IF key = "" THEN by_key
        ELSE IF at = {}
        THEN Append(by_key,
                    [ key |-> key, candidate |-> c, score |-> item.score,
                      signals |-> item.signals, reasons |-> item.reasons,
                      source_investor_ids |-> sids ])
        ELSE LET i == CHOOSE i \in at : TRUE
                 existing == by_key[i]
             IN  [ by_key EXCEPT ![i] =
                     [ existing EXCEPT
                         !.signals = existing.signals \cup item.signals,
                         !.reasons = existing.reasons \o item.reasons,
                         !.source_investor_ids = existing.source_investor_ids \cup sids ] ]

\* One iteration of run_pipeline's merge loop; by_key in insertion order.
MergeItem(by_key, item) ==
    LET c   == item.candidate
        key == MergeKey(c)
        sid == c.source_investor_id
        sids == IF sid # 0 THEN {sid} ELSE {}  \* `{sid} if sid else set()`
        at  == { i \in DOMAIN by_key : by_key[i].key = key }
    IN  IF key = "" THEN by_key
        ELSE IF at = {}
        THEN Append(by_key,
                    [ key |-> key, candidate |-> c, score |-> item.score,
                      signals |-> item.signals, reasons |-> item.reasons,
                      source_investor_ids |-> sids ])
        ELSE LET i == CHOOSE i \in at : TRUE
                 existing == by_key[i]
             IN  [ by_key EXCEPT ![i] =
                     [ existing EXCEPT
                         !.score = Max(existing.score, item.score),
                         !.signals = existing.signals \cup item.signals,
                         !.reasons = AppendNew(existing.reasons, item.reasons),
                         !.source_investor_ids = existing.source_investor_ids \cup sids ] ]

RECURSIVE MergeFrom(_, _)
MergeFrom(by_key, scored) ==
    IF Len(scored) = 0 THEN by_key
    ELSE MergeFrom(MergeItem(by_key, scored[1]), Tail(scored))

\* run_pipeline's merge: list(by_key.values())
MergeScored(scored) == MergeFrom(<<>>, scored)


\* Indexes whose linkedin_urls keep the investors' spelling (no lowercasing).
IndexesKeepUrlCase(existing_investors) ==
    LET invs == Range(existing_investors)
        nm(inv) == Strip(OrEmpty(inv.full_name))
    IN  [ normalized_names |-> { normalize_name(nm(inv)) : inv \in { i \in invs : nm(i) # "" } },
          linkedin_urls |->
              { Strip(OrEmpty(inv.linkedin_url)) :
                  inv \in { i \in invs : Strip(OrEmpty(i.linkedin_url)) # "" } },
          company_title_to_investors |-> << >> ]

\* _build_existing_indexes
_build_existing_indexes(existing_investors) ==
    LET invs == Range(existing_investors)
        nm(inv) == Strip(OrEmpty(inv.full_name))
        firm(inv) == Lower(Strip(OrEmpty(inv.firm)))
        title(inv) == Lower(Strip(OrEmpty(inv.title)))
        keys == { <<firm(inv), title(inv)>> :
                    inv \in { i \in invs : firm(i) # "" \/ title(i) # "" } }
    IN  [ normalized_names |-> { normalize_name(nm(inv)) : inv \in { i \in invs : nm(i) # "" } },
          linkedin_urls |->
              { Strip(Lower(Strip(OrEmpty(inv.linkedin_url)))) :
                  inv \in { i \in invs : Strip(OrEmpty(i.linkedin_url)) # "" } },
          company_title_to_investors |->
              [ k \in keys |->
                  { normalize_name(nm(inv)) :
                      inv \in { i \in invs : <<firm(i), title(i)>> = k } } ] ]

\* difflib.SequenceMatcher.find_longest_match on whole strings: the longest
\* common block, the earliest in a, and of those the earliest in b, as <<i, j, k>>.
LongestMatch(a, b) ==
    LET blocks == { <<i, j, k>> \in (1..Len(a)) \X (1..Len(b)) \X (1..Min(Len(a), Len(b))) :
                      /\ i + k - 1 <= Len(a)
                      /\ j + k - 1 <= Len(b)
                      /\ SubSeq(a, i, i + k - 1) = SubSeq(b, j, j + k - 1) }
    IN  IF blocks = {} THEN <<1, 1, 0>>
        ELSE CHOOSE m \in blocks :
               \A n \in blocks :
                  \/ m[3] > n[3]
                  \/ (m[3] = n[3] /\ m[1] < n[1])
                  \/ (m[3] = n[3] /\ m[1] = n[1] /\ m[2] <= n[2])

\* sum of the sizes of SequenceMatcher.get_matching_blocks()
RECURSIVE MatchingSize(_, _)
MatchingSize(a, b) ==
    IF a = "" \/ b = "" THEN 0
    ELSE LET m == LongestMatch(a, b)
         IN  IF m[3] = 0 THEN 0
             ELSE m[3]
                  + MatchingSize(SubSeq(a, 1, m[1] - 1), SubSeq(b, 1, m[2] - 1))
                  + MatchingSize(SubSeq(a, m[1] + m[3], Len(a)),
                                 SubSeq(b, m[2] + m[3], Len(b)))

\* SequenceMatcher(None, a, b).ratio() >= threshold / 100
RatioAtLeast(a, b, threshold) ==
    IF Len(a) + Len(b) = 0 THEN 100 >= threshold
    ELSE 200 * MatchingSize(a, b) >= threshold * (Len(a) + Len(b))

_fuzzy_match(name, existing_names_normalized, threshold) ==
    \E ex \in existing_names_normalized : RatioAtLeast(normalize_name(name), ex, threshold)

\* A dedup test that compares lowercased names instead of normalized names.
MatchesExistingByRawName(item, indexes, fuzzy_threshold) ==
    LET c == item.candidate
        url == Lower(Strip(OrEmpty(c.linkedin_url)))
    IN  \/ url # "" /\ url \in indexes.linkedin_urls
        \/ c.name # "" /\ Lower(c.name) \in indexes.normalized_names

\* The body of apply_dedup's loop: whether the item is dropped.
MatchesExisting(item, indexes, fuzzy_threshold) ==
    LET c == item.candidate
        name == OrEmpty(c.name)
        url == Lower(Strip(OrEmpty(c.linkedin_url)))
        key == <<Lower(Strip(OrEmpty(c.company))), Lower(Strip(OrEmpty(c.position)))>>
    IN  \/ url # "" /\ url \in indexes.linkedin_urls
        \/ name # "" /\ normalize_name(name) \in indexes.normalized_names
        \/ /\ key \in DOMAIN indexes.company_title_to_investors
           /\ _fuzzy_match(name, indexes.company_title_to_investors[key], fuzzy_threshold)

apply_dedup(candidates, existing_investors, fuzzy_threshold) ==
    LET indexes == _build_existing_indexes(existing_investors)
    IN  SelectSeq(candidates, LAMBDA item : ~MatchesExisting(item, indexes, fuzzy_threshold))

\* A sort key that compares the names as written: (-score, name).
SortKeyLessRawName(x, y) ==
    \/ x.score > y.score
    \/ x.score = y.score /\ StrLess(x.candidate.name, y.candidate.name)

\* The sort key of run_pipeline: (-score, name.lower()).
SortKeyLess(x, y) ==
    \/ x.score > y.score
    \/ x.score = y.score /\ StrLess(Lower(x.candidate.name), Lower(y.candidate.name))

\* list.sort(key=...): stable.
SortRanked(items) ==
    LET pos(i) == 1 + Cardinality({ j \in DOMAIN items :
                        \/ SortKeyLess(items[j], items[i])
                        \/ (~SortKeyLess(items[i], items[j]) /\ j < i) })
    IN  [ p \in DOMAIN items |-> items[CHOOSE i \in DOMAIN items : pos(i) = p] ]

\* seq[:n]
SlicePrefix(seq, n) ==
    IF n >= 0 THEN SubSeq(seq, 1, Min(n, Len(seq)))
    ELSE SubSeq(seq, 1, Max(0, Len(seq) + n))

\* One flat output entry of run_pipeline.
SuggestedEntry(item, common_companies) ==
    LET c == item.candidate
        cand_company == Lower(Strip(OrEmpty(c.company)))
    IN  [ name |-> c.name, company |-> c.company, position |-> c.position,
          location |-> c.location, linkedin_url |-> c.linkedin_url,
          score |-> item.score, signals |-> item.signals, reasons |-> item.reasons,
          source_investor_id |-> c.source_investor_id,
          shared_investors_count |-> Cardinality(item.source_investor_ids),
          shared_org_count |->
              IF cand_company # "" /\ cand_company \in common_companies THEN 1 ELSE 0 ]

\* The candidates with the gate applied to the scored connections, before
\* the merge.
PipelineSurvivorsGateFirst(invs, conns, min_signal_categories, fuzzy_threshold, ind_order, ft_order) ==
    LET company_profile == build_company_profile(invs)
        company_connection_counts == _connection_company_counts(conns)
        scored == score_candidates(conns, company_profile, company_connection_counts,
                                   ind_order, ft_order)
        gated == apply_multi_signal_gate(scored, min_signal_categories)
    IN  apply_dedup(MergeScored(gated), invs, fuzzy_threshold)

\* The candidates that run_pipeline ranks: scored, merged, gated, deduplicated.
PipelineSurvivors(invs, conns, min_signal_categories, fuzzy_threshold, ind_order, ft_order) ==
    LET company_profile == build_company_profile(invs)
        company_connection_counts == _connection_company_counts(conns)
        scored == score_candidates(conns, company_profile, company_connection_counts,
                                   ind_order, ft_order)
        merged == MergeScored(scored)
        gated == apply_multi_signal_gate(merged, min_signal_categories)
    IN  apply_dedup(gated, invs, fuzzy_threshold)

\* run_pipeline's return value (without the company's display name).
run_pipeline(company_id, top_n, min_signal_categories, fuzzy_threshold, ind_order, ft_order) ==
    LET invs == load_company_investors(company_id)
        investor_ids == [ i \in DOMAIN invs |-> invs[i].id ]
        conns == load_connections_for_investors(investor_ids)
        company_connection_counts == _connection_company_counts(conns)
        common_companies == { k \in DOMAIN company_connection_counts :
                                company_connection_counts[k] >= 2 }
        deduped == SortRanked(PipelineSurvivors(invs, conns, min_signal_categories,
                                                fuzzy_threshold, ind_order, ft_order))
        top == SlicePrefix(deduped, top_n)
    IN  IF invs = <<>>
        THEN [ suggested_list |-> <<>>, investor_count |-> 0, connection_count |-> 0,
               company_profile |-> build_company_profile(<<>>) ]
        ELSE [ suggested_list |->
                 [ i \in DOMAIN top |-> SuggestedEntry(top[i], common_companies) ],
               investor_count |-> Len(invs),
               connection_count |-> Len(conns),
               company_profile |-> build_company_profile(invs) ]


----------------------------------------------------------------------------
(* The database contents that the behaviours start from                     *)

MaxConnections == 3

MaxTopN == 2

Inv(id, company_id, full_name, firm, title, industry, location, linkedin_url) ==
    [ id |-> id, company_id |-> company_id, full_name |-> full_name, firm |-> firm,
      title |-> title, industry |-> industry, location |-> location,
      linkedin_url |-> linkedin_url ]

Conn(investor_id, first_name, last_name, full_name, company, position, location, linkedin_url) ==
    [ investor_id |-> investor_id, first_name |-> first_name, last_name |-> last_name,
      full_name |-> full_name, company |-> company, position |-> position,
      location |-> location, linkedin_url |-> linkedin_url ]

invA == Inv(1, 1, "Ann Lee", "Acme Capital", "Partner", "fintech/saas", "New York, NY", "in/AnnLee")

invB == Inv(2, 1, "Bob Roe", "", "", "", "", "")

invC == Inv(3, 1, "Cy Poe", "Capital Fund", "Analyst", "", "Austin", "")

invZ == Inv(4, 2, "Zoe Kay", "", "", "", "", "in/zoe")

CompanyIds == {1, 2}

\* The investors tables: none, one investor, two, and three plus another company's.
InvestorTables == { <<>>, <<invA>>, <<invA, invB>>, <<invA, invB, invC, invZ>> }

\* The connection rows that imports may have stored, in a fixed order.
ConnectionRows ==
    << Conn(1, "Jane", "Doe", "Jane Doe", "Acme Capital", "VP", "NYC", "in/jane"),
       Conn(2, "Jane", "Doe", "Jane A. Doe", "acme capital", "Partner", "New York", "in/jdoe"),
       Conn(3, "", "", "JANE DOE", "", "Fintech SaaS Director", "", "IN/JANE"),
       Conn(2, "", "", "ann  lee.", "Capital Fund", "Analyst", "", ""),
       Conn(2, "", "", "Zed Poe", "Acme Capital", "Principal", "", "IN/ANNLEE"),
       Conn(1, "", "", "Sam Hill", "", "Analyst", "", ""),
       Conn(2, "", "", "sam hill", "", "", "New York", "In/AnnLee"),
       Conn(1, "al", "kim", " ", "Capital Fund", "Analyst", "", ""),
       Conn(2, "Bo", "Ng", "Bo Ng", "Capital Fund", "Analyst", "", ""),
       Conn(1, "", "", "Anne Lee", "Acme Capital", "Partner", "NY", "in/anne"),
       Conn(4, "", "", "Jane Doe", "Acme Capital", "VP", "", "in/zoe"),
       Conn(1, "", "", " ", "Acme Capital", "VP", "", "in/noname") >>

\* Tables of at most MaxConnections distinct rows of investors in invs, in the
\* order of ConnectionRows or in the reverse order.
ConnectionTables(invs) ==
    LET ids == { invs[i].id : i \in DOMAIN invs }
        usable == { i \in DOMAIN ConnectionRows : ConnectionRows[i].investor_id \in ids }
        picks == { S \in SUBSET usable : Cardinality(S) <= MaxConnections }
        nth(S, j) == CHOOSE i \in S : Cardinality({ k \in S : k < i }) = j - 1
        up(S) == [ j \in 1..Cardinality(S) |-> ConnectionRows[nth(S, j)] ]
        down(S) == [ j \in 1..Cardinality(S) |->
                       ConnectionRows[nth(S, Cardinality(S) + 1 - j)] ]
    IN  { up(S) : S \in picks } \cup { down(S) : S \in picks }

InitDB ==
    /\ investors \in InvestorTables
    /\ connections \in ConnectionTables(investors)
    /\ interactions = <<>>
    /\ status_history = <<>>
    /\ relationships = <<>>
    /\ NoForecastRows
    /\ NoGraphRows
    /\ now = StartDay
    /\ call = NoCall
    /\ ret = NoCall

\* Every order in which a set of str can be iterated.
Orders(S) ==
    { f \in [1..Cardinality(S) -> S] : \A i, j \in 1..Cardinality(S) : f[i] = f[j] => i = j }

\* The industry tokens / firm-type tokens that occur in some connection, the
\* only ones whose place in the iteration order can matter.
IndustryTokensInUse(company_id) ==
    LET invs == load_company_investors(company_id)
        conns == load_connections_for_investors([ i \in DOMAIN invs |-> invs[i].id ])
    IN  { t \in build_company_profile(invs).industry_tokens :
            \E c \in Range(conns) :
               Contains(t, Lower(" " \o Strip(OrEmpty(c.position)) \o " "
                                     \o Strip(OrEmpty(c.company)) \o " ")) }

FirmTokensInUse(company_id) ==
    LET invs == load_company_investors(company_id)
        conns == load_connections_for_investors([ i \in DOMAIN invs |-> invs[i].id ])
    IN  { t \in FIRM_TYPE_TOKENS :
            \E c \in Range(conns) : Contains(t, Lower(Strip(OrEmpty(c.company)))) }

\* GET /companies/<id>/suggested-investors: one run of the pipeline.  The run
\* reads the tables and writes none, so a second run from the same tables
\* reaches no state that a first run does not: one run per behaviour is explored.
RunPipeline ==
    /\ call = NoCall
    /\ \E company_id \in CompanyIds, top_n \in 0..MaxTopN :
        \E ind_order \in Orders(IndustryTokensInUse(company_id)),
           ft_order \in Orders(FirmTokensInUse(company_id)) :
          /\ call' = [ op |-> "run_pipeline", company_id |-> company_id, top_n |-> top_n,
                       ind_order |-> ind_order, ft_order |-> ft_order ]
          /\ ret' = run_pipeline(company_id, top_n, MIN_SIGNAL_CATEGORIES,
                                 FUZZY_NAME_THRESHOLD, ind_order, ft_order)
          /\ UNCHANGED <<investors, connections, interactions, status_history, relationships, now, forecastVars, graphVars>>

NextPipeline == RunPipeline

SpecPipeline == InitDB /\ [][NextPipeline]_vars


----------------------------------------------------------------------------
(* relationship_strength.py: the key that addresses a candidate            *)

\* normalized_name + '|' + lower(linkedin_url or '')
_candidate_key_from_candidate(candidate) ==
    normalize_name(OrEmpty(candidate.name)) \o "|" \o Lower(Strip(OrEmpty(candidate.linkedin_url)))

----------------------------------------------------------------------------
(* Properties of the recommendation pipeline                               *)

PipelineRan == call.op = "run_pipeline"

\* What the latest run loaded and computed on the way to its result.
CallInvestors == load_company_investors(call.company_id)

CallConnections ==
    load_connections_for_investors([ i \in DOMAIN CallInvestors |-> CallInvestors[i].id ])

CallScored ==
    score_candidates(CallConnections, build_company_profile(CallInvestors),
                     _connection_company_counts(CallConnections),
                     call.ind_order, call.ft_order)

CallMerged == MergeScored(CallScored)

CallGated == apply_multi_signal_gate(CallMerged, MIN_SIGNAL_CATEGORIES)

CallSurvivors == apply_dedup(CallGated, CallInvestors, FUZZY_NAME_THRESHOLD)

\* The investors of the company of the latest run, as stored.
CompanyInvestorRows == { inv \in Range(investors) : inv.company_id = call.company_id }

\* C1: every entry that run_pipeline returns has at least 2 distinct fired
\* signal categories in its signals map.
C1_OutputHasTwoSignalCategories ==
    PipelineRan =>
        \A e \in Range(ret.suggested_list) :
            Cardinality(e.signals \cap SIGNAL_CATEGORIES) >= 2

\* C1 witness: a run that returned an entry and dropped a merged candidate
\* that fired fewer than 2 categories.
C1_Witness ==
    /\ PipelineRan
    /\ ret.suggested_list # <<>>
    /\ \E m \in Range(CallMerged) : Cardinality(m.signals) < 2

\* C2: no returned entry has a non-empty linkedin_url that equals, ignoring
\* case, the linkedin_url of an investor of the company.
C2_NoExistingLinkedinUrl ==
    PipelineRan =>
        \A e \in Range(ret.suggested_list) :
            e.linkedin_url # "" =>
                \A inv \in CompanyInvestorRows :
                    Lower(e.linkedin_url) # Lower(OrEmpty(inv.linkedin_url))

\* C2 witness: a run in which a candidate that passed the gate, and whose name
\* matches no investor, carried an investor's linkedin_url in another case.
C2_Witness ==
    /\ PipelineRan
    /\ \E g \in Range(CallGated) :
          /\ g.candidate.linkedin_url # ""
          /\ \E inv \in CompanyInvestorRows :
                /\ Lower(g.candidate.linkedin_url) = Lower(inv.linkedin_url)
                /\ g.candidate.linkedin_url # inv.linkedin_url
          /\ \A inv \in CompanyInvestorRows :
                normalize_name(g.candidate.name) # normalize_name(inv.full_name)

\* The scored connections of the latest run whose names normalize to key.
ScoredOfPerson(key) ==
    { i \in DOMAIN CallScored : normalize_name(CallScored[i].candidate.name) = key }

C4_MergeIdentityIsNameAndUrl ==
    PipelineRan =>
        Len(CallMerged) =
            Cardinality({ _candidate_key_from_candidate(CallScored[i].candidate) :
                            i \in { j \in DOMAIN CallScored :
                                      normalize_name(CallScored[j].candidate.name) # "" } })

\* C5: no returned entry has a name whose normalized key equals the normalized
\* key of the name of an investor of the company.
C5_NoExistingNormalizedName ==
    PipelineRan =>
        \A e \in Range(ret.suggested_list) :
            \A inv \in CompanyInvestorRows :
                normalize_name(e.name) # normalize_name(inv.full_name)

\* C5 witness: a run in which a candidate that passed the gate had the
\* normalized name of an investor, written differently, and no linkedin_url.
C5_Witness ==
    /\ PipelineRan
    /\ \E g \in Range(CallGated) :
          /\ \E inv \in CompanyInvestorRows :
                /\ normalize_name(g.candidate.name) = normalize_name(inv.full_name)
                /\ Lower(g.candidate.name) # Lower(inv.full_name)
          /\ g.candidate.linkedin_url = ""

\* s ranks before e in the full ranking: higher score, or the same score and
\* a name that comes first alphabetically (letter case ignored).
RanksBefore(s, e) ==
    \/ s.score > e.score
    \/ s.score = e.score /\ StrLess(Lower(s.name), Lower(e.name))

\* C6: the output has at most top_n entries, is ordered by score descending
\* and then by name ascending, and is a prefix of the full ranking of the
\* candidates that survived gate and dedup.
C6_OutputIsRankedPrefix ==
    PipelineRan =>
        LET out == ret.suggested_list
            all == { [ name |-> s.candidate.name, score |-> s.score ] : s \in Range(CallSurvivors) }
            got == { [ name |-> e.name, score |-> e.score ] : e \in Range(out) }
        IN  /\ Len(out) <= call.top_n
            /\ \A i, j \in DOMAIN out : i < j => RanksBefore(out[i], out[j])
            /\ got \subseteq all
            /\ Cardinality(got) = Min(call.top_n, Cardinality(all))
            /\ \A s \in all \ got : \A e \in got : ~RanksBefore(s, e)

\* C6 witness: a run that left a survivor out and returned two candidates of
\* equal score whose names sort differently with and without letter case.
C6_Witness ==
    /\ PipelineRan
    /\ Len(ret.suggested_list) = 2
    /\ Len(CallSurvivors) > 2
    /\ ret.suggested_list[1].score = ret.suggested_list[2].score
    /\ StrLess(ret.suggested_list[2].name, ret.suggested_list[1].name)

----------------------------------------------------------------------------
(* fit_score.py                                                            *)
(* Points are kept in half points (twice the value): every value the      *)
(* module computes is a multiple of 0.5, so the doubling is exact.        *)

MAX_SIMILARITY_PTS == 30

fit_MAX_NETWORK_PTS == 35

MAX_LOCATION_PTS == 20

fit_MAX_RECENCY_PTS == 15

\* Nearest integer to num/den (den > 0), a tie going to the even neighbour.
RoundHalfEven(num, den) ==
    LET q == num \div den
        r == num % den
    IN  IF 2 * r < den THEN q
        ELSE IF 2 * r > den THEN q + 1
        ELSE IF q % 2 = 0 THEN q ELSE q + 1

\* round(min(100, max(0, (total / max_pts) * 100))) for total given in half
\* points.  The quotient and the product are IEEE doubles: with max_pts = 100
\* the product is 54.50000000000001 for total = 54.5 and 57.49999999999999
\* for total = 57.5, so these two round away from the tie; every other
\* multiple of 0.5 in 0..200 gives the double nearest the exact value, and
\* round() of it is the half-even rounding of the exact value.
RoundScaled(total2, max_pts) ==
    LET exact == RoundHalfEven(total2 * 100, 2 * max_pts)
        fl == IF max_pts = 100 /\ total2 = 109 THEN 55
              ELSE IF max_pts = 100 /\ total2 = 115 THEN 57
              ELSE exact
    IN  Min(100, Max(0, fl))

_industry_overlap_score(candidate_title, candidate_company, profile_industry_tokens) ==
    IF profile_industry_tokens = {} THEN 0
    ELSE LET text == Lower(" " \o OrEmpty(candidate_title) \o " "
                               \o OrEmpty(candidate_company) \o " ")
             matches == Cardinality({ t \in profile_industry_tokens : Contains(t, text) })
         IN  IF matches = 0 THEN 0 ELSE Min(2 * 10, 2 * 3 + matches * 2 * 2)

_title_pattern_score(candidate_title) ==
    IF candidate_title = "" THEN 0
    ELSE IF matches_title_pattern(candidate_title) THEN 2 * 10 ELSE 0

_firm_type_score(candidate_company, profile_firm_tokens) ==
    IF candidate_company = "" THEN 0
    ELSE LET cl == Lower(Strip(candidate_company))
             typed == IF \E ft \in FIRM_TYPE_TOKENS : Contains(ft, cl) THEN 2 * 5 ELSE 0
             similar == IF \E f \in profile_firm_tokens :
                              Len(f) > 4 /\ (Contains(f, cl) \/ Contains(cl, f))
                        THEN 2 * 5 ELSE 0
         IN  Min(2 * 10, typed + similar)

\* raw * scale with scale = MAX_SIMILARITY_PTS / 30.0 (or 0 when raw is 0)
_similarity_score(candidate, company_profile) ==
    LET title == Strip(OrEmpty(candidate.position))
        company == Strip(OrEmpty(candidate.company))
        ind_pts == _industry_overlap_score(title, company, company_profile.industry_tokens)
        title_pts == _title_pattern_score(title)
        firm_pts == _firm_type_score(company, company_profile.investor_firms_lower)
        raw == ind_pts + title_pts + firm_pts
    IN  [ pts |-> IF raw = 0 THEN 0 ELSE (raw * MAX_SIMILARITY_PTS) \div 30,
          factors |-> (IF ind_pts > 0 THEN << "Industry overlap with your investors" >> ELSE <<>>)
                      \o (IF title_pts > 0 THEN << "Investor-like title" >> ELSE <<>>)
                      \o (IF firm_pts > 0 THEN << "Firm type / similar to your investors" >>
                          ELSE <<>>) ]

\* A network score that grows with each count and is never capped.
NetworkScoreLinear(shared_investors_count, shared_org_count) ==
    [ pts |-> 2 * (12 * shared_investors_count + 7 * shared_org_count), factors |-> <<>> ]

_network_score(shared_investors_count, shared_org_count) ==
    LET inv_pts == IF shared_investors_count >= 3 THEN 2 * 20
                   ELSE IF shared_investors_count = 2 THEN 2 * 12
                   ELSE IF shared_investors_count = 1 THEN 2 * 5 ELSE 0
        inv_factors == IF shared_investors_count >= 3
                       THEN << "Seen in " \o IntToStr(shared_investors_count)
                               \o " investor networks" >>
                       ELSE IF shared_investors_count = 2 THEN << "Seen in 2 investor networks" >>
                       ELSE IF shared_investors_count = 1 THEN << "In 1 investor's network" >>
                       ELSE <<>>
        org_pts == IF shared_org_count >= 2 THEN 2 * 15
                   ELSE IF shared_org_count = 1 THEN 2 * 7 ELSE 0
        org_factors == IF shared_org_count >= 2 THEN << "Company appears across network" >>
                       ELSE IF shared_org_count = 1 THEN << "Company in network" >> ELSE <<>>
    IN  [ pts |-> Min(inv_pts + org_pts, 2 * fit_MAX_NETWORK_PTS),
          factors |-> inv_factors \o org_factors ]

_location_score(candidate_location, profile_location_tokens) ==
    IF candidate_location = "" \/ Strip(candidate_location) = "" THEN [ pts |-> 0, factors |-> <<>> ]
    ELSE IF profile_location_tokens = {} THEN [ pts |-> 0, factors |-> <<>> ]
    ELSE IF tokenize_location(candidate_location) \cap profile_location_tokens = {}
         THEN [ pts |-> 0, factors |-> <<>> ]
    ELSE [ pts |-> 2 * MAX_LOCATION_PTS, factors |-> << "Location match with your investors" >> ]

\* MAX_RECENCY_PTS * 0.5
_recency_score(candidate) == [ pts |-> fit_MAX_RECENCY_PTS, factors |-> <<>> ]

\* breakdown holds round(pts, 1) of each dimension, exact for multiples of
\* 0.5 and kept in half points here.
compute_fit_score(company_id, candidate, company_profile, shared_investors_count, shared_org_count) ==
    LET sim == _similarity_score(candidate, company_profile)
        net == _network_score(shared_investors_count, shared_org_count)
        loc == _location_score(OrEmpty(candidate.location), company_profile.location_tokens)
        rec == _recency_score(candidate)
        total == sim.pts + net.pts + loc.pts + rec.pts
        max_pts == MAX_SIMILARITY_PTS + fit_MAX_NETWORK_PTS + MAX_LOCATION_PTS + fit_MAX_RECENCY_PTS
        factors == sim.factors \o net.factors \o loc.factors \o rec.factors
    IN  [ fit_score |-> RoundScaled(total, max_pts),
          factors |-> IF Len(factors) > 6 THEN SubSeq(factors, 1, 6) ELSE factors,
          breakdown |-> [ similarity |-> sim.pts, network |-> net.pts,
                          location |-> loc.pts, recency |-> rec.pts ] ]

----------------------------------------------------------------------------
(* Fit score: inputs and the step that computes it                         *)

MaxShared == 3

invW == Inv(5, 1, "Wes Fox", "Growth Partners", "Managing Director",
            "fintech/saas/crypto|health, bio", "Austin, TX", "")

FitInvestorTables == InvestorTables \cup { <<invA, invW>> }

Candidate(name, company, position, location, linkedin_url) ==
    [ name |-> name, company |-> company, position |-> position,
      location |-> location, linkedin_url |-> linkedin_url ]

\* The candidates the suggested-investors page may score: the people of the
\* connection rows, and one who matches every dimension of a wide profile.
FitCandidates ==
    { Candidate(ConnectionName(c), OrEmpty(c.company), OrEmpty(c.position),
                OrEmpty(c.location), OrEmpty(c.linkedin_url)) : c \in Range(ConnectionRows) }
    \cup { Candidate("Max Orr", "Bio Growth Partners", "Fintech SaaS Crypto Health Partner",
                     "Austin", ""),
           Candidate("Kit Low", " ", " ", " ", "") }

InitFit ==
    /\ investors \in FitInvestorTables
    /\ connections = <<>>
    /\ interactions = <<>>
    /\ status_history = <<>>
    /\ relationships = <<>>
    /\ NoForecastRows
    /\ NoGraphRows
    /\ now = StartDay
    /\ call = NoCall
    /\ ret = NoCall

\* The enrichment step of the suggested-investors page for one candidate.  It
\* reads the investors and writes nothing, so one call per behaviour reaches
\* every result.
ComputeFitScore ==
    /\ call = NoCall
    /\ \E company_id \in CompanyIds, candidate \in FitCandidates,
       shared_investors_count \in 0..MaxShared, shared_org_count \in 0..MaxShared :
        /\ call' = [ op |-> "compute_fit_score", company_id |-> company_id,
                     candidate |-> candidate,
                     shared_investors_count |-> shared_investors_count,
                     shared_org_count |-> shared_org_count ]
        /\ ret' = compute_fit_score(company_id, candidate,
                                    build_company_profile(load_company_investors(company_id)),
                                    shared_investors_count, shared_org_count)
        /\ UNCHANGED <<investors, connections, interactions, status_history, relationships, now, forecastVars, graphVars>>

NextFit == ComputeFitScore

SpecFit == InitFit /\ [][NextFit]_vars

FitScoreRan == call.op = "compute_fit_score"

\* The sum of the four sub-scores of the latest result, in half points.
FitTotal ==
    ret.breakdown.similarity + ret.breakdown.network
        + ret.breakdown.location + ret.breakdown.recency

----------------------------------------------------------------------------
(* relationship_strength.py                                                *)
(* Points are kept in half points (a document event is worth 2.5).        *)
(* Timestamps are day numbers; two ISO strings of the one format that     *)
(* now_iso() writes compare as their instants do.                         *)

rs_MAX_NETWORK_PTS == 25

MAX_INTENSITY_PTS == 35

rs_MAX_RECENCY_PTS == 20

MAX_PROGRESS_PTS == 20

Entity(type, id, key) == [ type |-> type, id |-> id, key |-> key ]

\* (now - ts).total_seconds() / 86400.0, or None without a timestamp
_days_ago(ts) == IF ts = NoTs THEN NoTs ELSE now - ts

\* Two investor networks score more than three or more.
NetworkPointsFavourPairs(shared_investors_count, shared_org_count) ==
    [ pts |-> IF shared_investors_count >= 3 THEN 2 * 6
              ELSE IF shared_investors_count = 2 THEN 2 * 18
              ELSE IF shared_investors_count = 1 THEN 2 * 6 ELSE 0,
      factors |-> <<>> ]

_network_points(shared_investors_count, shared_org_count) ==
    LET inv_pts == IF shared_investors_count >= 3 THEN 2 * 18
                   ELSE IF shared_investors_count = 2 THEN 2 * 12
                   ELSE IF shared_investors_count = 1 THEN 2 * 6 ELSE 0
        inv_factors == IF shared_investors_count >= 3
                       THEN << "Seen in " \o IntToStr(shared_investors_count)
                               \o " investor networks (+18)" >>
                       ELSE IF shared_investors_count = 2
                       THEN << "Seen in 2 investor networks (+12)" >>
                       ELSE IF shared_investors_count = 1
                       THEN << "Seen in 1 investor network (+6)" >>
                       ELSE <<>>
        org_pts == IF shared_org_count >= 2 THEN 2 * 7
                   ELSE IF shared_org_count = 1 THEN 2 * 4 ELSE 0
        org_factors == IF shared_org_count >= 2 THEN << "Common org across networks (+7)" >>
                       ELSE IF shared_org_count = 1 THEN << "Org appears in your network (+4)" >>
                       ELSE <<>>
    IN  [ pts |-> Min(inv_pts + org_pts, 2 * rs_MAX_NETWORK_PTS),
          factors |-> inv_factors \o org_factors ]

\* events.get(event_type, 0)
EventCount(events, event_type) ==
    IF event_type \in DOMAIN events THEN events[event_type] ELSE 0

\* A part without its cap: n * each points.
IntensityPartUncapped(n, each2, cap2, label) ==
    IF n = 0 THEN [ pts |-> 0, factors |-> <<>> ]
    ELSE [ pts |-> n * each2,
           factors |-> << IntToStr(n) \o label \o " (+" \o IntToStr((n * each2) \div 2) \o ")" >> ]

\* One part of the intensity: min(cap, n * each) points and the line that
\* reports them with int(points); nothing for n = 0.  cap2 and each2 are in
\* half points.
IntensityPart(n, each2, cap2, label) ==
    IF n = 0 THEN [ pts |-> 0, factors |-> <<>> ]
    ELSE LET p == Min(cap2, n * each2)
         IN  [ pts |-> p,
               factors |-> << IntToStr(n) \o label \o " (+" \o IntToStr(p \div 2) \o ")" >> ]

_intensity_points(events) ==
    LET meetings == EventCount(events, "meeting_completed")
        replies == EventCount(events, "email_reply")
        docs == EventCount(events, "doc_shared") + EventCount(events, "term_sheet_received")
                  + EventCount(events, "term_sheet_signed")
        commitments == EventCount(events, "commitment_made")
                         + EventCount(events, "investment_closed")
        m == IntensityPart(meetings, 2 * 6, 2 * 20, " meeting(s) completed")
        r == IntensityPart(replies, 2 * 2, 2 * 8, " reply event(s)")
        d == IntensityPart(docs, 5, 2 * 5, " doc/term-sheet event(s)")
        c == IntensityPart(commitments, 2 * 10, 2 * 10, " commitment/closing event(s)")
    IN  [ pts |-> Min(m.pts + r.pts + d.pts + c.pts, 2 * MAX_INTENSITY_PTS),
          factors |-> m.factors \o r.factors \o d.factors \o c.factors ]

_recency_points(days_since) ==
    IF days_since = NoTs THEN [ pts |-> 0, factors |-> <<>> ]
    ELSE IF days_since <= 7
         THEN [ pts |-> 2 * rs_MAX_RECENCY_PTS, factors |-> << "Last touch within 7 days (+20)" >> ]
    ELSE IF days_since <= 30
         THEN [ pts |-> 2 * 12, factors |-> << "Last touch within 30 days (+12)" >> ]
    ELSE IF days_since <= 90
         THEN [ pts |-> 2 * 6, factors |-> << "Last touch within 90 days (+6)" >> ]
    ELSE [ pts |-> 0, factors |-> << "Last touch over 90 days ago (+0)" >> ]

\* The points of a pipeline status; 0 for one the mapping does not know.
StatusPoints(status) ==
    CASE status = "contacted" -> 4
      [] status = "meeting" -> 8
      [] status = "interested" -> 12
      [] status = "committed" -> 16
      [] status = "invested" -> 20
      [] OTHER -> 0

_progress_points(current_status) ==
    IF current_status = None \/ current_status = "" THEN [ pts |-> 0, factors |-> <<>> ]
    ELSE LET status == Lower(current_status)
             pts == StatusPoints(status)
         IN  [ pts |-> Min(2 * pts, 2 * MAX_PROGRESS_PTS),
               factors |-> IF pts > 0
                           THEN << "Pipeline stage: " \o status \o " (+" \o IntToStr(pts) \o ")" >>
                           ELSE <<>> ]

\* The WHERE clause of _load_events_for_pair: the row refers to the from
\* entity or to the to entity, by id when the entity has one and by key when
\* the key is not empty.  No row matches when neither entity has either.
RefersTo(row, entity) ==
    \/ entity.id # NoId /\ row.entity_type = entity.type /\ row.entity_id = entity.id
    \/ OrEmpty(entity.key) # "" /\ row.entity_type = entity.type /\ row.entity_key = entity.key

\* The loop over the matched rows: count per event_type, and last_ts replaced
\* by each ts that is later (or by the first).
RECURSIVE AggregateEvents(_, _, _)
AggregateEvents(rows, counts, last_ts) ==
    IF rows = <<>> THEN [ counts |-> counts, last_ts |-> last_ts ]
    ELSE LET r == Head(rows)
             et == r.event_type
             counts1 == [ k \in DOMAIN counts \cup {et} |->
                            IF k = et THEN EventCount(counts, et) + 1 ELSE counts[k] ]
             last1 == IF last_ts = NoTs \/ (r.event_ts # NoTs /\ r.event_ts > last_ts)
                      THEN r.event_ts ELSE last_ts
         IN  AggregateEvents(Tail(rows), counts1, last1)

\* The aggregation over every row of the company, whatever entity it names.
LoadEventsOfCompany(company_id, from_entity, to_entity) ==
    AggregateEvents(SelectSeq(interactions, LAMBDA r : r.company_id = company_id),
                    << >>, NoTs)

_load_events_for_pair(company_id, from_entity, to_entity) ==
    AggregateEvents(SelectSeq(interactions,
                              LAMBDA r : /\ r.company_id = company_id
                                         /\ (RefersTo(r, from_entity) \/ RefersTo(r, to_entity))),
                    << >>, NoTs)

\* The latest status rows of the company, whatever entity they name.
LatestStatusRowsOfCompany(company_id, entity) ==
    LET match == { i \in DOMAIN status_history : status_history[i].company_id = company_id }
    IN  { i \in match : \A j \in match : status_history[j].ts <= status_history[i].ts }

\* The rows of investor_status_history that ORDER BY ts DESC LIMIT 1 may
\* return for the entity: those with the latest ts.  SQL leaves the choice
\* among rows of equal ts open.
LatestStatusRows(company_id, entity) ==
    LET match == { i \in DOMAIN status_history :
                     /\ status_history[i].company_id = company_id
                     /\ status_history[i].entity_type = entity.type
                     /\ (entity.id # NoId => status_history[i].entity_id = entity.id)
                     /\ (OrEmpty(entity.key) # "" => status_history[i].entity_key = entity.key) }
    IN  { i \in match : \A j \in match : status_history[j].ts <= status_history[i].ts }

\* The status of the row picked (0 for no row): None without a row.
_latest_status(company_id, entity, picked) ==
    IF picked = 0 THEN None ELSE status_history[picked].status

\* json.dumps of a list of str without characters that need escaping
json_dumps(factors) ==
    "[" \o JoinWith([ i \in DOMAIN factors |-> "\"" \o factors[i] \o "\"" ], ", ") \o "]"

\* The computation of compute_relationship_strength, up to the write.
StrengthResult(company_id, from_entity, to_entity, shared_investors_count, shared_org_count, picked) ==
    LET net == _network_points(shared_investors_count, shared_org_count)
        loaded == _load_events_for_pair(company_id, from_entity, to_entity)
        intensity == _intensity_points(loaded.counts)
        rec == _recency_points(_days_ago(loaded.last_ts))
        prog == _progress_points(_latest_status(company_id, to_entity, picked))
        total_pts == net.pts + intensity.pts + rec.pts + prog.pts
        max_pts == rs_MAX_NETWORK_PTS + MAX_INTENSITY_PTS + rs_MAX_RECENCY_PTS + MAX_PROGRESS_PTS
    IN  [ relationship_strength |-> RoundScaled(total_pts, max_pts),
          factors |-> net.factors \o intensity.factors \o rec.factors \o prog.factors,
          last_interaction_ts |-> loaded.last_ts ]

\* COALESCE(id, -1) and COALESCE(key, '')
CoalesceId(id) == IF id = NoId THEN -1 ELSE id

CoalesceKey(key) == IF key = None THEN "" ELSE key

\* The rows the SELECT of the existing relationships row matches.
ExistingRelationshipsIn(rels, company_id, from_entity, to_entity) ==
    { i \in DOMAIN rels :
        /\ rels[i].company_id = company_id
        /\ rels[i].from_type = from_entity.type
        /\ CoalesceId(rels[i].from_id) = CoalesceId(from_entity.id)
        /\ CoalesceKey(rels[i].from_key) = CoalesceKey(from_entity.key)
        /\ rels[i].to_type = to_entity.type
        /\ CoalesceId(rels[i].to_id) = CoalesceId(to_entity.id)
        /\ CoalesceKey(rels[i].to_key) = CoalesceKey(to_entity.key) }

ExistingRelationships(company_id, from_entity, to_entity) ==
    ExistingRelationshipsIn(relationships, company_id, from_entity, to_entity)

\* The write with an INSERT whether or not the key has a row.
UpsertAlwaysInserts(rels, company_id, from_entity, to_entity, result) ==
    Append(rels,
           [ id |-> Len(rels) + 1,
             company_id |-> company_id,
             from_type |-> from_entity.type, from_id |-> from_entity.id,
             from_key |-> from_entity.key,
             to_type |-> to_entity.type, to_id |-> to_entity.id,
             to_key |-> to_entity.key,
             relationship_strength |-> result.relationship_strength,
             strength_factors |-> json_dumps(result.factors),
             last_interaction_ts |-> result.last_interaction_ts,
             updated_at |-> now ])

\* The table rels after the UPDATE of the first existing row, or after the
\* INSERT when there is none.
UpsertRelationshipIn(rels, company_id, from_entity, to_entity, result) ==
    LET existing == ExistingRelationshipsIn(rels, company_id, from_entity, to_entity)
    IN  IF existing # {}
        THEN LET i == CHOOSE i \in existing : \A j \in existing : i <= j
             IN  [ rels EXCEPT
                     ![i].relationship_strength = result.relationship_strength,
                     ![i].strength_factors = json_dumps(result.factors),
                     ![i].last_interaction_ts = result.last_interaction_ts,
                     ![i].updated_at = now ]
        ELSE Append(rels,
                    [ id |-> Len(rels) + 1,
                      company_id |-> company_id,
                      from_type |-> from_entity.type, from_id |-> from_entity.id,
                      from_key |-> from_entity.key,
                      to_type |-> to_entity.type, to_id |-> to_entity.id,
                      to_key |-> to_entity.key,
                      relationship_strength |-> result.relationship_strength,
                      strength_factors |-> json_dumps(result.factors),
                      last_interaction_ts |-> result.last_interaction_ts,
                      updated_at |-> now ])

\* The relationships table after the write of compute_relationship_strength.
UpsertRelationship(company_id, from_entity, to_entity, result) ==
    UpsertRelationshipIn(relationships, company_id, from_entity, to_entity, result)

----------------------------------------------------------------------------
(* Relationship strength: the tables, the clock and the handlers           *)

MaxInteractions == 1

MaxStatusRows == 1

MaxRelationships == 1

MaxTicks == 1

\* A row of interactions as add_investor_interaction writes it.
Interaction(company_id, entity_id, event_type, event_ts) ==
    [ company_id |-> company_id, actor_type |-> "user", entity_type |-> "investor",
      entity_id |-> entity_id, entity_key |-> None, event_type |-> event_type,
      event_ts |-> event_ts ]

\* A row of investor_status_history as update_investor_status writes it.
StatusRow(company_id, entity_id, status, ts) ==
    [ company_id |-> company_id, entity_type |-> "investor", entity_id |-> entity_id,
      entity_key |-> None, status |-> status, ts |-> ts, by_user |-> "user" ]

\* Event logs of earlier days.
InteractionTables ==
    { <<>>,
      << Interaction(1, 1, "meeting_completed", StartDay - 7) >>,
      << Interaction(1, 1, "email_reply", StartDay - 30),
         Interaction(1, 2, "doc_shared", StartDay - 90),
         Interaction(1, 1, "note", StartDay - 91) >>,
      << Interaction(2, 4, "investment_closed", StartDay - 3),
         Interaction(1, 3, "meeting_completed", StartDay - 1) >>,
      << Interaction(1, 1, "meeting_completed", StartDay - 40),
         Interaction(1, 1, "meeting_completed", StartDay - 33),
         Interaction(1, 1, "email_reply", StartDay - 32),
         Interaction(1, 1, "meeting_completed", StartDay - 20),
         Interaction(1, 1, "doc_shared", StartDay - 19),
         Interaction(1, 1, "term_sheet_received", StartDay - 12),
         Interaction(1, 1, "meeting_completed", StartDay - 11),
         Interaction(1, 1, "term_sheet_signed", StartDay - 9),
         Interaction(1, 1, "commitment_made", StartDay - 8),
         Interaction(1, 1, "investment_closed", StartDay - 2),
         Interaction(1, 1, "email_reply", StartDay - 5) >> }

\* Status histories of earlier days; in the third, two rows share the latest ts.
StatusTables ==
    { <<>>,
      << StatusRow(1, 1, "contacted", StartDay - 10) >>,
      << StatusRow(1, 1, "meeting", StartDay - 5),
         StatusRow(1, 1, "invested", StartDay - 5),
         StatusRow(1, 2, "committed", StartDay - 4) >>,
      << StatusRow(1, 1, "interested", StartDay - 3),
         StatusRow(1, 1, "prospect", StartDay - 1) >> }

InitStrength ==
    /\ investors = <<invA, invB, invC, invZ>>
    /\ connections = <<>>
    /\ interactions \in InteractionTables
    /\ status_history \in StatusTables
    /\ relationships = <<>>
    /\ NoForecastRows
    /\ NoGraphRows
    /\ now = StartDay
    /\ call = NoCall
    /\ ret = NoCall

\* from_entity and to_entity of compute_investor_candidate_strength
InvestorCandidateEntities(investor_id, candidate) ==
    << Entity("investor", investor_id, None),
       Entity("candidate", NoId, _candidate_key_from_candidate(candidate)) >>

\* The pairs strength is computed for: an investor and a suggested candidate,
\* an investor and the company context, two investors.
StrengthPairs ==
    { InvestorCandidateEntities(1, Candidate("Jane Doe", "Acme Capital", "VP", "NYC", "in/jane")),
      << Entity("investor", 1, None), Entity("org", NoId, "company:1") >>,
      << Entity("investor", 2, None), Entity("investor", 1, None) >> }

EventTypes == { "meeting_completed", "doc_shared" }

StatusInputs == { " Invested ", "on hold", "" }

InvestorIdInputs == { 1, 9 }

\* The clock advances.
Tick ==
    /\ now < StartDay + MaxTicks
    /\ now' = now + 1
    /\ UNCHANGED <<investors, connections, interactions, status_history, relationships,
                   call, ret, forecastVars, graphVars>>

\* SELECT * FROM investors WHERE id = ?
InvestorById(investor_id) ==
    SelectSeq(investors, LAMBDA r : r.id = investor_id)

\* POST /investor/<id>/interactions
AddInvestorInteraction ==
    /\ Len(interactions) < MaxInteractions
    /\ \E investor_id \in InvestorIdInputs, form_event_type \in EventTypes \cup {" "} :
        LET inv == InvestorById(investor_id)
            event_type == Strip(form_event_type)
        IN  /\ call' = [ op |-> "add_investor_interaction", investor_id |-> investor_id,
                         event_type |-> form_event_type ]
            /\ IF inv = <<>>
               THEN /\ ret' = [ flash |-> "Investor not found." ]
                    /\ UNCHANGED interactions
               ELSE IF event_type = ""
               THEN /\ ret' = [ flash |-> "Event type is required." ]
                    /\ UNCHANGED interactions
               ELSE /\ ret' = [ flash |-> "Interaction logged." ]
                    /\ interactions' =
                         Append(interactions,
                                Interaction(inv[1].company_id, investor_id, event_type, now))
            /\ UNCHANGED <<investors, connections, status_history, relationships, now, forecastVars, graphVars>>

\* POST /investor/<id>/status
UpdateInvestorStatus ==
    /\ Len(status_history) < MaxStatusRows
    /\ \E investor_id \in InvestorIdInputs, form_status \in StatusInputs :
        LET inv == InvestorById(investor_id)
            status == Lower(Strip(form_status))
        IN  /\ call' = [ op |-> "update_investor_status", investor_id |-> investor_id,
                         status |-> form_status ]
            /\ IF inv = <<>>
               THEN /\ ret' = [ flash |-> "Investor not found." ]
                    /\ UNCHANGED status_history
               ELSE IF status = ""
               THEN /\ ret' = [ flash |-> "Status is required." ]
                    /\ UNCHANGED status_history
               ELSE /\ ret' = [ flash |-> "Status updated." ]
                    /\ status_history' =
                         Append(status_history,
                                StatusRow(inv[1].company_id, investor_id, status, now))
            /\ UNCHANGED <<investors, connections, interactions, relationships, now, forecastVars, graphVars>>

\* compute_relationship_strength: compute, write the relationships row, return.
ComputeRelationshipStrength ==
    \E company_id \in CompanyIds, pair \in StrengthPairs,
       shared_investors_count \in 0..MaxShared, shared_org_count \in 0..MaxShared :
      LET from_entity == pair[1]
          to_entity == pair[2]
          latest == LatestStatusRows(company_id, to_entity)
      IN  /\ \/ ExistingRelationships(company_id, from_entity, to_entity) # {}
             \/ Len(relationships) < MaxRelationships
          /\ \E picked \in (IF latest = {} THEN {0} ELSE latest) :
               LET result == StrengthResult(company_id, from_entity, to_entity,
                                            shared_investors_count, shared_org_count, picked)
               IN  /\ call' = [ op |-> "compute_relationship_strength",
                                company_id |-> company_id,
                                from_entity |-> from_entity, to_entity |-> to_entity,
                                shared_investors_count |-> shared_investors_count,
                                shared_org_count |-> shared_org_count,
                                picked |-> picked ]
                   /\ relationships' =
                        UpsertRelationship(company_id, from_entity, to_entity, result)
                   /\ ret' = result
          /\ UNCHANGED <<investors, connections, interactions, status_history, now, forecastVars, graphVars>>

NextStrength ==
    \/ Tick
    \/ AddInvestorInteraction
    \/ UpdateInvestorStatus
    \/ ComputeRelationshipStrength

SpecStrength == InitStrength /\ [][NextStrength]_vars

StrengthRan == call.op = "compute_relationship_strength"

\* The strength the latest call would have returned for another
\* shared_investors_count, with the tables, the clock, the pair, the status
\* row and shared_org_count as they were.
StrengthWith(shared_investors_count) ==
    StrengthResult(call.company_id, call.from_entity, call.to_entity,
                   shared_investors_count, call.shared_org_count,
                   call.picked).relationship_strength

\* The latest call was of compute_relationship_strength and the tables and the
\* clock are still as it saw them: the row it wrote carries the present day
\* (a tick moves the clock past that stamp, and the handlers that write the
\* event log or the status history replace `call`).
StrengthJustReturned ==
    /\ StrengthRan
    /\ \E i \in ExistingRelationships(call.company_id, call.from_entity, call.to_entity) :
          relationships[i].updated_at = now

\* C8: compute_relationship_strength returns a strength in 0..100, and with
\* the events, the age of the last interaction, the status and
\* shared_org_count held fixed the strength does not decrease when
\* shared_investors_count grows.
C8_StrengthInRangeAndMonotone ==
    StrengthJustReturned =>
        /\ ret.relationship_strength \in 0..100
        /\ \A k \in 0..(MaxShared + 1) :
             /\ k <= call.shared_investors_count => StrengthWith(k) <= ret.relationship_strength
             /\ k >= call.shared_investors_count => StrengthWith(k) >= ret.relationship_strength

\* C8 witness: a call for two shared investors that has just returned, with
\* events, a last interaction and a status that all score, whose strength is
\* below the one for three shared investors and above the one for one.
C8_Witness ==
    /\ StrengthJustReturned
    /\ call.shared_investors_count = 2
    /\ call.picked # 0
    /\ ret.last_interaction_ts # NoTs
    /\ StrengthWith(1) < ret.relationship_strength
    /\ ret.relationship_strength < StrengthWith(3)
    /\ StrengthWith(3) = 100

----------------------------------------------------------------------------
(* overlap.py                                                              *)
(* Percentages are kept in tenths of a percent: round(x, 1) times ten.    *)

\* SELECT id, full_name, firm FROM investors WHERE company_id = ?
\* (no ORDER BY: the rows in the order of the table)
OverlapInvestors(company_id) ==
    SelectSeq(investors, LAMBDA r : r.company_id = company_id)

\* The name of a connection row: full_name stripped, or first and last name.
OverlapPersonName(r) ==
    LET fn == Strip(OrEmpty(r.full_name))
    IN  IF fn # "" THEN fn
        ELSE Strip(Strip(OrEmpty(r.first_name)) \o " " \o Strip(OrEmpty(r.last_name)))

person_key(r) ==
    LET fn == OverlapPersonName(r)
    IN  IF fn # "" THEN Lower(fn) ELSE None

org_key(r) ==
    LET c == Strip(OrEmpty(r.company))
    IN  IF c # "" THEN Lower(c) ELSE None

\* A key that is not None and not empty
Truthy(key) == key # None /\ key # ""

\* key -> the rows that have the key, in place of the investors that have it
KeyToRows(conns, keys) ==
    [ k \in { keys[i] : i \in { j \in DOMAIN keys : Truthy(keys[j]) } } |->
        { j \in DOMAIN keys : keys[j] = k } ]

\* key -> set(investor_id), for the keys of the rows that have one
KeyToInvestors(conns, keys) ==
    [ k \in { keys[i] : i \in { j \in DOMAIN keys : Truthy(keys[j]) } } |->
        { conns[i].investor_id : i \in { j \in DOMAIN keys : keys[j] = k } } ]

\* The keys of a dict in insertion order: each key where a row first has it.
InsertionOrder(keys) ==
    LET first == { i \in DOMAIN keys :
                     Truthy(keys[i]) /\ \A j \in DOMAIN keys : j < i => keys[j] # keys[i] }
        nth(p) == CHOOSE i \in first : Cardinality({ j \in first : j < i }) = p - 1
    IN  [ p \in 1..Cardinality(first) |-> keys[nth(p)] ]

\* sorted([(k, len(v)) ...], key=lambda x: -x[1])[:20] over the entries with
\* at least 2 investors, as {label, count}: by count descending, entries of
\* equal count in insertion order.
TopOverlapping(to_investors, order) ==
    LET over == SelectSeq(order, LAMBDA k : Cardinality(to_investors[k]) >= 2)
        pos(i) == 1 + Cardinality({ j \in DOMAIN over :
                        \/ Cardinality(to_investors[over[j]]) > Cardinality(to_investors[over[i]])
                        \/ (Cardinality(to_investors[over[j]]) = Cardinality(to_investors[over[i]])
                            /\ j < i) })
        sorted == [ p \in DOMAIN over |-> over[CHOOSE i \in DOMAIN over : pos(i) = p] ]
    IN  [ p \in 1..Min(20, Len(sorted)) |->
            [ label |-> sorted[p], count |-> Cardinality(to_investors[sorted[p]]) ] ]

\* round(part / whole * 100, 1) in tenths, 0.0 for whole = 0.  The quotient
\* and the product are doubles; for the counts of the model the rounded
\* result is the exact quotient rounded half-even.
PercentTenths(part, whole) ==
    IF whole = 0 THEN 0 ELSE RoundHalfEven(part * 1000, whole)

_empty_overlap_metrics ==
    [ total_nodes |-> 0, total_edges |-> 0, unique_people_count |-> 0,
      unique_org_count |-> 0, overlap_people_count |-> 0, overlap_org_count |-> 0,
      overlap_percentage |-> 0, top_overlapping_people |-> <<>>,
      top_overlapping_orgs |-> <<>>, collapse_count |-> 0, collapse_rate |-> 0,
      person_to_investors |-> << >>, org_to_investors |-> << >> ]

compute_overlap_intelligence(company_id) ==
    LET invs == OverlapInvestors(company_id)
        investor_ids == [ i \in DOMAIN invs |-> invs[i].id ]
        conns == load_connections_for_investors(investor_ids)
        pks == [ i \in DOMAIN conns |-> person_key(conns[i]) ]
        oks == [ i \in DOMAIN conns |-> org_key(conns[i]) ]
        person_to_investors == KeyToInvestors(conns, pks)
        org_to_investors == KeyToInvestors(conns, oks)
        unique_people_count == Cardinality(DOMAIN person_to_investors)
        unique_org_count == Cardinality(DOMAIN org_to_investors)
        overlap_people_count ==
            Cardinality({ k \in DOMAIN person_to_investors :
                            Cardinality(person_to_investors[k]) >= 2 })
        overlap_org_count ==
            Cardinality({ k \in DOMAIN org_to_investors :
                            Cardinality(org_to_investors[k]) >= 2 })
    IN  IF investor_ids = <<>> THEN _empty_overlap_metrics
        ELSE [ total_nodes |-> Len(investor_ids) + unique_people_count + unique_org_count,
               total_edges |-> Len(conns),
               unique_people_count |-> unique_people_count,
               unique_org_count |-> unique_org_count,
               overlap_people_count |-> overlap_people_count,
               overlap_org_count |-> overlap_org_count,
               overlap_percentage |-> PercentTenths(overlap_people_count + overlap_org_count,
                                                    unique_people_count + unique_org_count),
               top_overlapping_people |-> TopOverlapping(person_to_investors, InsertionOrder(pks)),
               top_overlapping_orgs |-> TopOverlapping(org_to_investors, InsertionOrder(oks)),
               collapse_count |-> overlap_people_count,
               collapse_rate |-> PercentTenths(overlap_people_count, unique_people_count),
               person_to_investors |-> person_to_investors,
               org_to_investors |-> org_to_investors ]

\* The display details kept for a person: those of the first row with the key.
PersonDetails(r) ==
    [ name |-> Strip(IF OrEmpty(r.full_name) # "" THEN r.full_name
                     ELSE OrEmpty(r.first_name) \o " " \o OrEmpty(r.last_name)),
      company |-> OrEmpty(r.company),
      position |-> OrEmpty(r.position) ]

compute_investor_overlap_matrix(company_id) ==
    LET rows == OverlapInvestors(company_id)
        invs == [ i \in DOMAIN rows |->
                    [ id |-> rows[i].id, full_name |-> rows[i].full_name, firm |-> rows[i].firm ] ]
        n == Len(invs)
        investor_ids == [ i \in DOMAIN invs |-> invs[i].id ]
        conns == load_connections_for_investors(investor_ids)
        pks == [ i \in DOMAIN conns |-> person_key(conns[i]) ]
        person_to_investors == KeyToInvestors(conns, pks)
        order == InsertionOrder(pks)
        shared(i, j) == SelectSeq(order, LAMBDA k : /\ invs[i].id \in person_to_investors[k]
                                                    /\ invs[j].id \in person_to_investors[k])
        details(k) == PersonDetails(conns[CHOOSE i \in DOMAIN pks :
                                            pks[i] = k /\ \A j \in DOMAIN pks : j < i => pks[j] # k])
        pairs == { <<i, j>> \in (1..n) \X (1..n) : i < j /\ shared(i, j) # <<>> }
        keyOf(pr) == IntToStr(pr[1] - 1) \o "-" \o IntToStr(pr[2] - 1)
    IN  IF n < 2
        THEN [ investors |-> invs, matrix |-> <<>>, shared_connections |-> << >> ]
        ELSE [ investors |->
                 [ i \in DOMAIN invs |->
                     [ id |-> invs[i].id, full_name |-> invs[i].full_name, firm |-> invs[i].firm,
                       connection_count |->
                         Cardinality({ c \in DOMAIN conns : /\ Truthy(pks[c])
                                                            /\ conns[c].investor_id = invs[i].id }) ] ],
               matrix |->
                 [ i \in 1..n |-> [ j \in 1..n |-> IF i = j THEN 0 ELSE Len(shared(i, j)) ] ],
               shared_connections |->
                 [ key \in { keyOf(pr) : pr \in pairs } |->
                     LET pr == CHOOSE q \in pairs : keyOf(q) = key
                         people == shared(pr[1], pr[2])
                     IN  [ p \in 1..Min(20, Len(people)) |-> details(people[p]) ] ] ]

----------------------------------------------------------------------------
(* Overlap: the steps that compute it                                      *)

\* The overlap page: both computations read the tables and write nothing, so
\* one call per behaviour reaches every result.
ComputeOverlapIntelligence ==
    /\ call = NoCall
    /\ \E company_id \in CompanyIds :
        /\ call' = [ op |-> "compute_overlap_intelligence", company_id |-> company_id ]
        /\ ret' = compute_overlap_intelligence(company_id)
        /\ UNCHANGED <<investors, connections, interactions, status_history, relationships, now, forecastVars, graphVars>>

ComputeInvestorOverlapMatrix ==
    /\ call = NoCall
    /\ \E company_id \in CompanyIds :
        /\ call' = [ op |-> "compute_investor_overlap_matrix", company_id |-> company_id ]
        /\ ret' = compute_investor_overlap_matrix(company_id)
        /\ UNCHANGED <<investors, connections, interactions, status_history, relationships, now, forecastVars, graphVars>>

NextOverlap ==
    \/ ComputeOverlapIntelligence
    \/ ComputeInvestorOverlapMatrix

SpecOverlap == InitDB /\ [][NextOverlap]_vars

----------------------------------------------------------------------------
(* Properties of the overlap analytics                                     *)

OverlapRan == call.op = "compute_overlap_intelligence"

MatrixRan == call.op = "compute_investor_overlap_matrix"

\* The investors of the company of the latest call, and the connection rows
\* the call read.
OverlapCallInvestors == OverlapInvestors(call.company_id)

OverlapCallConnections ==
    load_connections_for_investors([ i \in DOMAIN OverlapCallInvestors |->
                                       OverlapCallInvestors[i].id ])

\* C9: overlap_percentage lies in 0..100 (0..1000 tenths) for every company,
\* and overlap_percentage, overlap_people_count, overlap_org_count and
\* collapse_rate are all 0 when the company has no investor or one, whatever
\* the connections of that investor.
C9_OverlapPercentageInRangeAndZeroForOneInvestor ==
    OverlapRan =>
        /\ ret.overlap_percentage \in 0..1000
        /\ Cardinality({ i \in DOMAIN investors : investors[i].company_id = call.company_id }) <= 1
             => /\ ret.overlap_percentage = 0
                /\ ret.overlap_people_count = 0
                /\ ret.overlap_org_count = 0
                /\ ret.collapse_rate = 0

\* C9 witness: a company with one investor who has several connections, two
\* of them at the same organisation.
C9_Witness ==
    /\ OverlapRan
    /\ Len(OverlapCallInvestors) = 1
    /\ ret.unique_people_count >= 2
    /\ ret.unique_org_count >= 1
    /\ ret.total_edges > ret.unique_org_count + 1

\* The identity of the person of a connection row: normalize_name of the name.
PersonKeyNormalized(r) ==
    LET fn == OverlapPersonName(r)
    IN  IF fn # "" THEN normalize_name(fn) ELSE None

\* The normalized-name identities among the connection rows of an investor.
NormalizedIdentities(investor_id) ==
    { PersonKeyNormalized(c) :
        c \in { r \in Range(OverlapCallConnections) :
                  r.investor_id = investor_id /\ OverlapPersonName(r) # "" } }

\* C10: overlap counting identifies people by normalized name.  The matrix is
\* symmetric and cell[i][j], i # j, is the number of normalized-name
\* identities found in the connection lists of both investor i and investor
\* j; compute_overlap_intelligence counts each normalized-name identity once,
\* and as overlapping when two or more investors have it.
C10_OverlapCountsNormalizedIdentities ==
    LET ids == { OverlapCallInvestors[i].id : i \in DOMAIN OverlapCallInvestors }
        all == UNION { NormalizedIdentities(id) : id \in ids }
    IN  /\ MatrixRan /\ ret.matrix # <<>> =>
              \A i, j \in DOMAIN ret.matrix :
                 /\ ret.matrix[i][j] = ret.matrix[j][i]
                 /\ i # j => ret.matrix[i][j] =
                               Cardinality(NormalizedIdentities(ret.investors[i].id)
                                             \cap NormalizedIdentities(ret.investors[j].id))
        /\ OverlapRan =>
              /\ ret.unique_people_count = Cardinality(all)
              /\ ret.overlap_people_count =
                   Cardinality({ k \in all :
                                   Cardinality({ id \in ids : k \in NormalizedIdentities(id) }) >= 2 })

(***************************************************************************)
(* behavior_profiles.py: decision episodes, behaviour metrics, axis scores *)
(*                                                                         *)
(* Averages and rates are kept as fractions [num, den]; den = 0 is None.   *)
(* Axis confidences are kept in tenths.                                    *)
(***************************************************************************)

\* datetime.fromisoformat(ts), None (NoTs) where it raises
_parse_ts(ts) == IF ts = NoTs THEN NoTs ELSE ts

DecisionEvents == { "declined", "commitment_made", "investment_closed" }

\* Before the first row: no episode open, none recorded, nothing counted.
NoEpisodes == [ current |-> << >>, episodes |-> << >>, event_counts |-> << >> ]

\* The loop body of _episodes_from_interactions with an intro_sent that
\* starts a fresh episode whether or not one is open.
EpisodeStepIntroReopens(st, r) ==
    LET et == r.event_type
        counts == [ k \in DOMAIN st.event_counts \cup {et} |->
                      IF k = et THEN EventCount(st.event_counts, et) + 1
                      ELSE st.event_counts[k] ]
        ts == _parse_ts(r.event_ts)
        c1 == IF et = "intro_sent"
              THEN << [ start_ts |-> ts, end_ts |-> NoTs, meetings |-> 0 ] >>
              ELSE st.current
        c2 == IF et = "meeting_completed" /\ c1 # << >>
              THEN << [ c1[1] EXCEPT !.meetings = @ + 1 ] >>
              ELSE c1
    IN  IF ts = NoTs THEN [ st EXCEPT !.event_counts = counts ]
        ELSE IF et \in DecisionEvents /\ c2 # << >>
        THEN [ current |-> << >>,
               episodes |-> Append(st.episodes, [ c2[1] EXCEPT !.end_ts = ts ]),
               event_counts |-> counts ]
        ELSE [ current |-> c2, episodes |-> st.episodes, event_counts |-> counts ]

\* The loop body with a decision event that records an episode even when
\* none is open (an episode without a start).
EpisodeStepDecisionAlwaysRecords(st, r) ==
    LET et == r.event_type
        counts == [ k \in DOMAIN st.event_counts \cup {et} |->
                      IF k = et THEN EventCount(st.event_counts, et) + 1
                      ELSE st.event_counts[k] ]
        ts == _parse_ts(r.event_ts)
        c1 == IF et = "intro_sent" /\ st.current = << >>
              THEN << [ start_ts |-> ts, end_ts |-> NoTs, meetings |-> 0 ] >>
              ELSE st.current
        c2 == IF et = "meeting_completed" /\ c1 # << >>
              THEN << [ c1[1] EXCEPT !.meetings = @ + 1 ] >>
              ELSE c1
        c3 == IF c2 = << >> THEN [ start_ts |-> ts, end_ts |-> NoTs, meetings |-> 0 ]
              ELSE c2[1]
    IN  IF ts = NoTs THEN [ st EXCEPT !.event_counts = counts ]
        ELSE IF et \in DecisionEvents
        THEN [ current |-> << >>,
               episodes |-> Append(st.episodes, [ c3 EXCEPT !.end_ts = ts ]),
               event_counts |-> counts ]
        ELSE [ current |-> c2, episodes |-> st.episodes, event_counts |-> counts ]

\* The loop body without the skip of rows whose timestamp does not parse.
EpisodeStepKeepsUnparsed(st, r) ==
    LET et == r.event_type
        counts == [ k \in DOMAIN st.event_counts \cup {et} |->
                      IF k = et THEN EventCount(st.event_counts, et) + 1
                      ELSE st.event_counts[k] ]
        ts == _parse_ts(r.event_ts)
        c1 == IF et = "intro_sent" /\ st.current = << >>
              THEN << [ start_ts |-> ts, end_ts |-> NoTs, meetings |-> 0 ] >>
              ELSE st.current
        c2 == IF et = "meeting_completed" /\ c1 # << >>
              THEN << [ c1[1] EXCEPT !.meetings = @ + 1 ] >>
              ELSE c1
    IN  IF et \in DecisionEvents /\ c2 # << >>
        THEN [ current |-> << >>,
               episodes |-> Append(st.episodes, [ c2[1] EXCEPT !.end_ts = ts ]),
               event_counts |-> counts ]
        ELSE [ current |-> c2, episodes |-> st.episodes, event_counts |-> counts ]

\* The loop body of _episodes_from_interactions for one row: count the event;
\* skip the row if its timestamp does not parse; then the three tests in
\* turn.  `current` is << >> (None) or holds the open episode.
EpisodeStep(st, r) ==
    LET et == r.event_type
        counts == [ k \in DOMAIN st.event_counts \cup {et} |->
                      IF k = et THEN EventCount(st.event_counts, et) + 1
                      ELSE st.event_counts[k] ]
        ts == _parse_ts(r.event_ts)
        c1 == IF et = "intro_sent" /\ st.current = << >>
              THEN << [ start_ts |-> ts, end_ts |-> NoTs, meetings |-> 0 ] >>
              ELSE st.current
        c2 == IF et = "meeting_completed" /\ c1 # << >>
              THEN << [ c1[1] EXCEPT !.meetings = @ + 1 ] >>
              ELSE c1
    IN  IF ts = NoTs THEN [ st EXCEPT !.event_counts = counts ]
        ELSE IF et \in DecisionEvents /\ c2 # << >>
        THEN [ current |-> << >>,
               episodes |-> Append(st.episodes, [ c2[1] EXCEPT !.end_ts = ts ]),
               event_counts |-> counts ]
        ELSE [ current |-> c2, episodes |-> st.episodes, event_counts |-> counts ]

\* The parser after the first n rows.
RECURSIVE EpisodesAfter(_, _)
EpisodesAfter(rows, n) ==
    IF n = 0 THEN NoEpisodes ELSE EpisodeStep(EpisodesAfter(rows, n - 1), rows[n])

\* (episodes, event_counts): an episode still open after the last row is left out.
_episodes_from_interactions(rows) ==
    LET st == EpisodesAfter(rows, Len(rows))
    IN  [ episodes |-> st.episodes, event_counts |-> st.event_counts ]

\* sorted(rows, key=lambda r: r["event_ts"] or ""), and ORDER BY event_ts ASC:
\* ascending, rows of equal event_ts in the order they had; None first.
SortedByEventTs(rows) ==
    LET pos(i) == 1 + Cardinality({ j \in DOMAIN rows :
                        \/ rows[j].event_ts < rows[i].event_ts
                        \/ (rows[j].event_ts = rows[i].event_ts /\ j < i) })
    IN  [ p \in DOMAIN rows |-> rows[CHOOSE i \in DOMAIN rows : pos(i) = p] ]

\* sum of a list of numbers
RECURSIVE SumSeq(_)
SumSeq(xs) == IF xs = << >> THEN 0 ELSE Head(xs) + SumSeq(Tail(xs))

\* num / den of a non-empty list, None (den = 0) of an empty one
Fraction(num, den) == [ num |-> num, den |-> den ]

NoNumber == Fraction(0, 0)

\* sum(counts.values())
SumCounts(counts) ==
    LET RECURSIVE Sum(_)
        Sum(S) == IF S = {} THEN 0
                  ELSE LET k == CHOOSE x \in S : TRUE IN counts[k] + Sum(S \ {k})
    IN  Sum(DOMAIN counts)

_behavior_metrics_from_interactions(rows) ==
    LET parsed == _episodes_from_interactions(SortedByEventTs(rows))
        episodes == parsed.episodes
        counts == parsed.event_counts
        decided == SelectSeq(episodes, LAMBDA ep : ep.start_ts # NoTs /\ ep.end_ts # NoTs)
        tds == [ i \in DOMAIN decided |-> decided[i].end_ts - decided[i].start_ts ]
        mtds == [ i \in DOMAIN decided |-> decided[i].meetings ]
        sent == EventCount(counts, "email_sent")
        replies == EventCount(counts, "email_reply")
    IN  [ avg_time_to_decision_days |->
              IF tds # << >> THEN Fraction(SumSeq(tds), Len(tds)) ELSE NoNumber,
          avg_meetings_to_decision |->
              IF mtds # << >> THEN Fraction(SumSeq(mtds), Len(mtds)) ELSE NoNumber,
          response_rate |-> IF sent # 0 THEN Fraction(replies, sent) ELSE NoNumber,
          followup_latency_hours |-> NoNumber,
          episodes_count |-> Len(episodes),
          ghosted_count |-> EventCount(counts, "ghosted"),
          events_count |-> SumCounts(counts) ]

\* x <= n, x < n, x >= n, x > n of a fraction x that is not None, n = a / b
FracLe(x, a, b) == x.num * b <= a * x.den

FracLt(x, a, b) == x.num * b < a * x.den

FracGe(x, a, b) == ~FracLt(x, a, b)

FracGt(x, a, b) == ~FracLe(x, a, b)

_priority_and_reliability(metrics) ==
    LET t == metrics.avg_time_to_decision_days
        m == metrics.avg_meetings_to_decision
        rr == metrics.response_rate
        ghosted == metrics.ghosted_count
    IN  [ priority_style |->
              IF t # NoNumber /\ m # NoNumber
              THEN IF FracLe(t, 21, 1) /\ FracLe(m, 2, 1) THEN "fast_decisive"
                   ELSE IF FracGt(t, 30, 1) /\ FracGe(m, 3, 1) THEN "slow_deliberate"
                   ELSE "unknown"
              ELSE "unknown",
          reliability |->
              IF rr # NoNumber
              THEN IF FracGe(rr, 6, 10) /\ ghosted = 0 THEN "high_reliability"
                   ELSE IF FracLt(rr, 3, 10) \/ ghosted > 0 THEN "low_reliability"
                   ELSE "moderate_reliability"
              ELSE "unknown" ]

\* in tenths
conf_from_count(n) ==
    IF n <= 1 THEN 1 ELSE IF n <= 3 THEN 4 ELSE IF n <= 6 THEN 7 ELSE 10

_axis_scores(metrics) ==
    LET episodes == metrics.episodes_count
        events == metrics.events_count
        rr == metrics.response_rate
        t == metrics.avg_time_to_decision_days
        m == metrics.avg_meetings_to_decision
        ghosted == metrics.ghosted_count
        both == t # NoNumber /\ m # NoNumber
    IN  [ axis_scores |->
            [ risk_appetite |->
                  IF both /\ FracLe(t, 21, 1) /\ FracLe(m, 2, 1) THEN 75
                  ELSE IF both /\ (FracGt(t, 45, 1) \/ FracGe(m, 4, 1)) THEN 35
                  ELSE 50,
              control_orientation |-> IF events >= 10 THEN 65 ELSE 50,
              patience |->
                  IF t # NoNumber /\ FracGt(t, 45, 1) /\ ghosted = 0 THEN 75
                  ELSE IF t # NoNumber /\ FracLt(t, 14, 1) /\ ghosted > 0 THEN 35
                  ELSE 50,
              stress_behavior |-> IF ghosted >= 2 THEN 40 ELSE 70,
              relationship_style |->
                  IF rr # NoNumber /\ FracGe(rr, 7, 10) THEN 75
                  ELSE IF rr # NoNumber /\ FracLt(rr, 3, 10) THEN 35
                  ELSE 50,
              conviction_strength |->
                  IF both /\ FracLe(t, 21, 1) /\ FracLe(m, 2, 1) THEN 75
                  ELSE IF both /\ FracGt(t, 60, 1) /\ FracGe(m, 4, 1) THEN 35
                  ELSE 50 ],
          confidence |->
            [ risk_appetite |-> conf_from_count(episodes),
              control_orientation |-> conf_from_count(events),
              patience |-> conf_from_count(episodes),
              stress_behavior |-> conf_from_count(events),
              relationship_style |-> conf_from_count(events),
              conviction_strength |-> conf_from_count(episodes) ] ]

\* SELECT event_type, event_ts FROM interactions WHERE company_id = ? AND
\* entity_type = 'investor' AND entity_id = ? ORDER BY event_ts ASC
InvestorEventRows(company_id, investor_id) ==
    SortedByEventTs(SelectSeq(interactions,
                              LAMBDA r : /\ r.company_id = company_id
                                         /\ r.entity_type = "investor"
                                         /\ r.entity_id = investor_id))

\* What compute_behavior_profile returns.
BehaviorProfile(company_id, investor_id) ==
    LET metrics == _behavior_metrics_from_interactions(InvestorEventRows(company_id, investor_id))
        pr == _priority_and_reliability(metrics)
        ax == _axis_scores(metrics)
    IN  [ axis_scores |-> ax.axis_scores,
          confidence |-> ax.confidence,
          behavior_metrics |->
              [ avg_time_to_decision_days |-> metrics.avg_time_to_decision_days,
                avg_meetings_to_decision |-> metrics.avg_meetings_to_decision,
                response_rate |-> metrics.response_rate,
                followup_latency_hours |-> metrics.followup_latency_hours,
                episodes_count |-> metrics.episodes_count,
                ghosted_count |-> metrics.ghosted_count,
                events_count |-> metrics.events_count,
                priority_style |-> pr.priority_style,
                reliability |-> pr.reliability ] ]

\* The write with an INSERT whether or not the pair has a row.
UpsertProfileAlwaysInserts(profiles, company_id, investor_id, profile) ==
    Append(profiles,
           [ id |-> Len(profiles) + 1, investor_id |-> investor_id,
             company_id |-> company_id,
             axis_scores |-> profile.axis_scores,
             confidence |-> profile.confidence,
             behavior_metrics |-> profile.behavior_metrics,
             updated_at |-> now ])

\* The write of compute_behavior_profile: the row of (investor, company) is
\* updated if there is one, else inserted.  The three JSON columns hold
\* json.dumps of the returned dicts, whose keys are written in a fixed order:
\* the text is determined by the value, which is what the row keeps here.
UpsertBehaviorProfile(profiles, company_id, investor_id, profile) ==
    LET existing == { i \in DOMAIN profiles :
                        /\ profiles[i].investor_id = investor_id
                        /\ profiles[i].company_id = company_id }
    IN  IF existing # {}
        THEN LET i == CHOOSE x \in existing : \A y \in existing : x <= y
             IN  [ profiles EXCEPT ![i] =
                     [ @ EXCEPT !.axis_scores = profile.axis_scores,
                                !.confidence = profile.confidence,
                                !.behavior_metrics = profile.behavior_metrics,
                                !.updated_at = now ] ]
        ELSE Append(profiles,
                    [ id |-> Len(profiles) + 1, investor_id |-> investor_id,
                      company_id |-> company_id,
                      axis_scores |-> profile.axis_scores,
                      confidence |-> profile.confidence,
                      behavior_metrics |-> profile.behavior_metrics,
                      updated_at |-> now ])

\* The longest event log of one investor.
MaxEvents == 4

EpisodeEventTypes ==
    { "intro_sent", "meeting_completed", "declined", "commitment_made", "investment_closed" }

InitBehavior ==
    /\ investors = <<invA, invB, invC, invZ>>
    /\ connections = <<>>
    /\ interactions = <<>>
    /\ status_history = <<>>
    /\ relationships = <<>>
    /\ NoForecastRows
    /\ NoGraphRows
    /\ now = StartDay
    /\ call = NoCall
    /\ ret = NoCall

\* POST /investor/<id>/interactions with the event types of decision episodes
AddEpisodeEvent ==
    /\ Len(interactions) < MaxEvents
    /\ \E investor_id \in {1}, form_event_type \in EpisodeEventTypes :
        LET inv == InvestorById(investor_id)
            event_type == Strip(form_event_type)
        IN  /\ call' = [ op |-> "add_investor_interaction", investor_id |-> investor_id,
                         event_type |-> form_event_type ]
            /\ IF inv = <<>>
               THEN /\ ret' = [ flash |-> "Investor not found." ]
                    /\ UNCHANGED interactions
               ELSE IF event_type = ""
               THEN /\ ret' = [ flash |-> "Event type is required." ]
                    /\ UNCHANGED interactions
               ELSE /\ ret' = [ flash |-> "Interaction logged." ]
                    /\ interactions' =
                         Append(interactions,
                                Interaction(inv[1].company_id, investor_id, event_type, now))
            /\ UNCHANGED <<investors, connections, status_history, relationships, now,
                           forecastVars, graphVars>>

\* compute_behavior_profile: read the log, compute, write the profile row, return.
ComputeBehaviorProfile ==
    \E company_id \in {1}, investor_id \in {1} :
      \E profile \in { BehaviorProfile(company_id, investor_id) } :
          /\ call' = [ op |-> "compute_behavior_profile", company_id |-> company_id,
                       investor_id |-> investor_id ]
          /\ investor_behavior_profiles' =
                UpsertBehaviorProfile(investor_behavior_profiles, company_id, investor_id,
                                      profile)
          /\ ret' = profile
          /\ UNCHANGED <<investors, connections, interactions, status_history, relationships,
                         scenario_runs, term_sheets, investor_clause_patterns,
                         graphVars, now>>

NextBehavior ==
    \/ Tick
    \/ AddEpisodeEvent
    \/ ComputeBehaviorProfile

SpecBehavior == InitBehavior /\ [][NextBehavior]_vars

(***************************************************************************)
(* Properties of the episode parser                                        *)
(***************************************************************************)

\* compute_behavior_profile was the latest call and what it returned is the
\* profile of the log as it stands.
BehaviorRan ==
    /\ call.op = "compute_behavior_profile"
    /\ ret = BehaviorProfile(call.company_id, call.investor_id)

\* The sorted log of investor 1 in company 1, whose events the behaviours log.
EpisodeLog == InvestorEventRows(1, 1)

EventTypesOf(rows) == [ i \in DOMAIN rows |-> rows[i].event_type ]

\* C11: an intro_sent that arrives while an episode is open changes neither
\* the open episode (its start time, its meeting count) nor the recorded
\* episodes; the log intro_sent@t0, meeting_completed@t1, intro_sent@t2,
\* declined@t3 yields exactly one episode, with start t0, end t3 and 1
\* meeting, so that the profile reports a time to decision of t3 - t0 days
\* and 1 meeting to decision.
C11_IntroSentWhileOpenChangesNothing ==
    LET rows == EpisodeLog
        isLog == EventTypesOf(rows)
                   = << "intro_sent", "meeting_completed", "intro_sent", "declined" >>
    IN  /\ \A i \in DOMAIN rows :
              LET before == EpisodesAfter(rows, i - 1)
                  after == EpisodesAfter(rows, i)
              IN  (rows[i].event_type = "intro_sent" /\ before.current # << >>)
                    => /\ after.current = before.current
                       /\ after.episodes = before.episodes
        /\ isLog =>
              _episodes_from_interactions(rows).episodes
                = << [ start_ts |-> rows[1].event_ts, end_ts |-> rows[4].event_ts,
                       meetings |-> 1 ] >>
        /\ (isLog /\ BehaviorRan) =>
              /\ ret.behavior_metrics.episodes_count = 1
              /\ ret.behavior_metrics.avg_time_to_decision_days
                   = Fraction(rows[4].event_ts - rows[1].event_ts, 1)
              /\ ret.behavior_metrics.avg_meetings_to_decision = Fraction(1, 1)

\* The profile was computed from the log of the example, the decision a day
\* after the first intro_sent.
C11_Witness ==
    /\ BehaviorRan
    /\ EventTypesOf(EpisodeLog)
         = << "intro_sent", "meeting_completed", "intro_sent", "declined" >>
    /\ EpisodeLog[4].event_ts > EpisodeLog[1].event_ts
    /\ EpisodeLog[3].event_ts > EpisodeLog[1].event_ts
    /\ ret.behavior_metrics.episodes_count = 1

\* Row k of the log is an event of the given types whose timestamp parses.
IsEvent(rows, k, types) ==
    rows[k].event_type \in types /\ _parse_ts(rows[k].event_ts) # NoTs

\* The intro_sent rows among the first i that no decision event follows
\* within the first i rows: not empty iff an episode is open after row i,
\* and then the earliest of them opened it.
OpenersAfter(rows, i) ==
    { j \in 1..i : /\ IsEvent(rows, j, {"intro_sent"})
                   /\ \A k \in (j + 1)..i : ~IsEvent(rows, k, DecisionEvents) }

EarliestOf(S) == CHOOSE x \in S : \A y \in S : x <= y

\* The elements of a set of numbers in ascending order
Ascending(S) ==
    [ p \in 1..Cardinality(S) |-> CHOOSE x \in S : Cardinality({ y \in S : y < x }) = p - 1 ]

\* The decision events that occur while an episode is open.
ClosingRows(rows) ==
    { d \in DOMAIN rows : IsEvent(rows, d, DecisionEvents) /\ OpenersAfter(rows, d - 1) # {} }

\* The episode that the decision event of row d closes.
EpisodeClosedAt(rows, d) ==
    LET s == EarliestOf(OpenersAfter(rows, d - 1))
    IN  [ start_ts |-> rows[s].event_ts, end_ts |-> rows[d].event_ts,
          meetings |-> Cardinality({ k \in (s + 1)..(d - 1) :
                                       IsEvent(rows, k, {"meeting_completed"}) }) ]

\* C12: the parser is a two-state machine: an episode is open after a row iff
\* an intro_sent has occurred that no decision event followed; the recorded
\* episodes are, in order, one per decision event that occurs while an
\* episode is open, each with the start of the intro_sent that opened it and
\* the number of meeting_completed events since; decision and meeting events
\* outside an episode record nothing, and an episode open after the last row
\* is not recorded.
C12_EpisodesAreClosedByFirstDecision ==
    LET rows == EpisodeLog
        closing == Ascending(ClosingRows(rows))
    IN  /\ \A i \in 0..Len(rows) :
              (EpisodesAfter(rows, i).current # << >>) = (OpenersAfter(rows, i) # {})
        /\ _episodes_from_interactions(rows).episodes
             = [ p \in DOMAIN closing |-> EpisodeClosedAt(rows, closing[p]) ]
        /\ BehaviorRan => ret.behavior_metrics.episodes_count = Cardinality(ClosingRows(rows))

\* The profile was computed from a log that starts with a decision event
\* outside an episode, closes one episode and ends with an episode open.
C12_Witness ==
    /\ BehaviorRan
    /\ Len(EpisodeLog) = MaxEvents
    /\ IsEvent(EpisodeLog, 1, DecisionEvents)
    /\ Cardinality(ClosingRows(EpisodeLog)) = 1
    /\ OpenersAfter(EpisodeLog, Len(EpisodeLog)) # {}
    /\ ret.behavior_metrics.episodes_count = 1

(***************************************************************************)
(* forecasting_engine.py: reaction probabilities, confidence, scenario runs *)
(*                                                                         *)
(* Probabilities before normalization are kept in units of 1/10000, which  *)
(* holds every sum and product of the rules exactly; normalized ones are   *)
(* fractions [num, den].  Confidences are kept in sixtieths (the mean of   *)
(* six axis confidences in tenths).                                        *)
(***************************************************************************)

SCENARIO_TYPES ==
    { "missed_revenue", "delayed_exit", "down_round", "choose_between_investors", "custom" }

ReactionKeys ==
    << "supportive", "neutral", "pressure", "control_push", "exit_push", "ghost" >>

\* SELECT * FROM investors WHERE company_id = ? ORDER BY full_name
_load_investors_for_company(company_id) == load_company_investors(company_id)

\* A base distribution with control_push at 0.15 and neutral at 0.30.
BaseWithMoreControlPush ==
    [ supportive |-> 3000, neutral |-> 3000, pressure |-> 1500,
      control_push |-> 1500, exit_push |-> 500, ghost |-> 500 ]

_base_probabilities ==
    [ supportive |-> 3000, neutral |-> 4000, pressure |-> 1500,
      control_push |-> 500, exit_push |-> 500, ghost |-> 500 ]

\* sum(probs.values())
SumProbs(probs) ==
    probs.supportive + probs.neutral + probs.pressure
      + probs.control_push + probs.exit_push + probs.ghost

\* The values as they are, each over the fixed 10000 instead of their sum.
NormalizeBySumOfBase(probs) ==
    [ k \in DOMAIN probs |-> Fraction(Max(0, probs[k]), 10000) ]

\* total = sum(probs.values()) or 1.0; max(0.0, v / total) per key
_normalize_probs(probs) ==
    LET total == IF SumProbs(probs) = 0 THEN 10000 ELSE SumProbs(probs)
    IN  [ k \in DOMAIN probs |->
            IF probs[k] * total < 0 THEN Fraction(0, total) ELSE Fraction(probs[k], total) ]

\* x * 0.7
TimesSevenTenths(x) == (x * 7) \div 10

\* The rules in their order; gives the adjusted probs and the factors
\* appended.
_adjust_for_behavior_and_scenario(scenario_type, axis_scores, relationship_strength, probs, factors) ==
    LET risk == axis_scores.risk_appetite
        control == axis_scores.control_orientation
        patience == axis_scores.patience
        stress == axis_scores.stress_behavior
        conviction == axis_scores.conviction_strength
        downside == scenario_type \in { "missed_revenue", "down_round" }
        s0 == [ probs |-> probs, factors |-> factors ]
        s1 == IF downside /\ control >= 60
              THEN [ probs |-> [ s0.probs EXCEPT !.control_push = @ + 1000,
                                                 !.pressure = @ + 500 ],
                     factors |-> Append(s0.factors,
                        "High control_orientation in downside scenario (+control_push, +pressure)") ]
              ELSE s0
        s2 == IF downside /\ stress >= 60
              THEN [ probs |-> [ s1.probs EXCEPT !.pressure = @ + 1000 ],
                     factors |-> Append(s1.factors,
                        "High stress_behavior in negative scenario (+pressure)") ]
              ELSE s1
        s3 == IF downside /\ conviction >= 65 /\ risk >= 60
              THEN [ probs |-> [ s2.probs EXCEPT !.supportive = @ + 1000 ],
                     factors |-> Append(s2.factors,
                        "High conviction & risk appetite (+supportive)") ]
              ELSE s2
        s4 == IF scenario_type = "delayed_exit"
              THEN IF patience < 45
                   THEN [ probs |-> [ s3.probs EXCEPT !.exit_push = @ + 1000,
                                                      !.pressure = @ + 500 ],
                          factors |-> Append(s3.factors,
                             "Low patience in delayed exit scenario (+exit_push, +pressure)") ]
                   ELSE [ probs |-> [ s3.probs EXCEPT !.neutral = @ + 500 ],
                          factors |-> Append(s3.factors,
                             "Higher patience dampens negative reactions (+neutral)") ]
              ELSE s3
    IN  IF relationship_strength >= 70
        THEN [ probs |-> [ s4.probs EXCEPT !.supportive = @ + 1000,
                                           !.pressure = TimesSevenTenths(@),
                                           !.control_push = TimesSevenTenths(@),
                                           !.exit_push = TimesSevenTenths(@) ],
               factors |-> Append(s4.factors,
                  "Strong relationship reduces negative reactions (+supportive)") ]
        ELSE s4

\* The six probabilities of one investor: base, rules, normalization.
ReactionProbabilities(scenario_type, axis_scores, relationship_strength) ==
    LET adjusted == _adjust_for_behavior_and_scenario(scenario_type, axis_scores,
                                                      relationship_strength,
                                                      _base_probabilities, << >>)
    IN  [ probabilities |-> _normalize_probs(adjusted.probs), factors |-> adjusted.factors ]

\* sum(axis_conf.values()), in tenths
SumConf(axis_conf) ==
    axis_conf.risk_appetite + axis_conf.control_orientation + axis_conf.patience
      + axis_conf.stress_behavior + axis_conf.relationship_style
      + axis_conf.conviction_strength

\* The mean and the bonuses without the clamp to [0.1, 1.0].
ConfidenceUnclamped(axis_conf, behavior_metrics, has_term_sheet) ==
    SumConf(axis_conf)
      + (IF behavior_metrics.episodes_count >= 2 THEN 6 ELSE 0)
      + (IF behavior_metrics.events_count >= 10 THEN 6 ELSE 0)
      + (IF has_term_sheet THEN 6 ELSE 0)

\* In sixtieths: the mean of the six axis confidences is their sum in tenths
\* over 60, each bonus of 0.1 is 6, the clamp is to 6..60.
_confidence_from_profile_and_data(axis_conf, behavior_metrics, has_term_sheet) ==
    LET avg_axis_conf == SumConf(axis_conf)
        b1 == avg_axis_conf + (IF behavior_metrics.episodes_count >= 2 THEN 6 ELSE 0)
        b2 == b1 + (IF behavior_metrics.events_count >= 10 THEN 6 ELSE 0)
        base == b2 + (IF has_term_sheet THEN 6 ELSE 0)
    IN  Max(6, Min(60, base))

\* SELECT 1 FROM term_sheets WHERE company_id = ? AND investor_id = ? LIMIT 1
HasTermSheet(company_id, investor_id) ==
    \E i \in DOMAIN term_sheets :
        term_sheets[i].company_id = company_id /\ term_sheets[i].investor_id = investor_id

\* The INSERT with an UPDATE in its place when the scenario already has a
\* run: the latest run of a scenario replaces the earlier one.
StoreReplacesRunOfScenario(runs, company_id, scenario_id, result, confidence) ==
    LET row == [ id |-> Len(runs) + 1, scenario_id |-> scenario_id, company_id |-> company_id,
                 run_ts |-> now, results_json |-> result, confidence_score |-> confidence,
                 model_version |-> "rules_v1" ]
        same == { i \in DOMAIN runs : runs[i].scenario_id = scenario_id }
    IN  IF same = {} THEN Append(runs, row)
        ELSE LET i == CHOOSE x \in same : TRUE
             IN  [ runs EXCEPT ![i] = [ row EXCEPT !.id = i ] ]

\* The table after the INSERT of one run.  results_json holds
\* json.dumps(result), a text determined by the result, which is what the
\* row keeps here; confidence_score is a fraction.
_store_scenario_run(runs, company_id, scenario_id, result, confidence) ==
    Append(runs,
           [ id |-> Len(runs) + 1, scenario_id |-> scenario_id, company_id |-> company_id,
             run_ts |-> now, results_json |-> result, confidence_score |-> confidence,
             model_version |-> "rules_v1" ])

\* The body of the loop over the investors for one of them, once the
\* behaviour profile and the strength to the company context are computed:
\* both are stored, and the probabilities and the confidence join the lists.
\* acc holds the two tables as written so far and the lists built so far.
ScenarioInvestorEntry(acc, company_id, inv, from_entity, to_entity, profile, rel, reaction, conf) ==
    [ profiles |-> UpsertBehaviorProfile(acc.profiles, company_id, inv.id, profile),
      rels |-> UpsertRelationshipIn(acc.rels, company_id, from_entity, to_entity, rel),
      per_investor |->
          Append(acc.per_investor,
                 [ investor_id |-> inv.id,
                   investor_name |-> inv.full_name,
                   probabilities |-> reaction.probabilities,
                   relationship_strength |-> rel.relationship_strength,
                   behavior_axes |-> profile.axis_scores,
                   confidence |-> conf,
                   factors |-> SlicePrefix(reaction.factors, 6) ]),
      confidences |-> Append(acc.confidences, conf) ]

\* The probabilities and the confidence of one investor, from the profile and
\* the strength
ScenarioInvestorForecast(acc, company_id, scenario_type, inv, from_entity, to_entity, profile, rel) ==
    ScenarioInvestorEntry(acc, company_id, inv, from_entity, to_entity, profile, rel,
        ReactionProbabilities(scenario_type, profile.axis_scores, rel.relationship_strength),
        _confidence_from_profile_and_data(profile.confidence, profile.behavior_metrics,
                                          HasTermSheet(company_id, inv.id)))

\* The body of the loop for one investor: the behaviour profile (computed and
\* stored), the strength to the company context (computed and stored), the
\* probabilities and the confidence.
ScenarioInvestorStep(acc, company_id, scenario_type, inv, picked) ==
    ScenarioInvestorForecast(acc, company_id, scenario_type, inv,
        Entity("investor", inv.id, None),
        Entity("org", NoId, "company:" \o IntToStr(company_id)),
        BehaviorProfile(company_id, inv.id),
        StrengthResult(company_id, Entity("investor", inv.id, None),
                       Entity("org", NoId, "company:" \o IntToStr(company_id)), 0, 0, picked))

\* The loop over the first n investors.
RECURSIVE ScenarioInvestors(_, _, _, _, _)
ScenarioInvestors(company_id, scenario_type, invs, picks, n) ==
    IF n = 0
    THEN [ profiles |-> investor_behavior_profiles, rels |-> relationships,
           per_investor |-> << >>, confidences |-> << >> ]
    ELSE ScenarioInvestorStep(ScenarioInvestors(company_id, scenario_type, invs, picks, n - 1),
                              company_id, scenario_type, invs[n], picks[n])

\* One guidance line: the names of the first five investors selected.
GuidanceLine(prefix, selected) ==
    LET first == SlicePrefix(selected, 5)
    IN  prefix \o JoinWith([ i \in DOMAIN first |-> first[i].investor_name ], ", ") \o "."

\* The end of run_scenario: the guidance, the result and the stored run, from
\* what the loop over the investors left in done.
ScenarioResult(company_id, scenario_row, scenario_type, invs, done, risky, supportive) ==
    LET guidance ==
            (IF risky # << >>
             THEN << GuidanceLine("Investors likely to push for control terms: ", risky) >>
             ELSE << >>)
            \o (IF supportive # << >>
                THEN << GuidanceLine("Most supportive profiles in this scenario: ", supportive) >>
                ELSE << >>)
        result == IF invs = << >>
                  THEN [ scenario_type |-> scenario_type, investors |-> << >>,
                         guidance |-> << >> ]
                  ELSE [ scenario_type |-> scenario_type, investors |-> done.per_investor,
                         guidance |-> guidance ]
        avg_conf == IF invs = << >> THEN Fraction(6, 60)
                    ELSE Fraction(SumSeq(done.confidences), 60 * Len(done.confidences))
    IN  [ result |-> result,
          profiles |-> done.profiles,
          rels |-> done.rels,
          runs |-> _store_scenario_run(scenario_runs, company_id, scenario_row.id, result,
                                       avg_conf) ]

\* The investors of the result that the two guidance lines name
ScenarioGuided(company_id, scenario_row, scenario_type, invs, done) ==
    ScenarioResult(company_id, scenario_row, scenario_type, invs, done,
        SelectSeq(done.per_investor, LAMBDA r : FracGe(r.probabilities.control_push, 2, 10)),
        SelectSeq(done.per_investor, LAMBDA r : FracGe(r.probabilities.supportive, 4, 10)))

\* The loop of run_scenario over the investors invs
ScenarioOver(company_id, scenario_row, scenario_type, invs, picks) ==
    ScenarioGuided(company_id, scenario_row, scenario_type, invs,
                   ScenarioInvestors(company_id, scenario_type, invs, picks, Len(invs)))

\* run_scenario.  picks[i] is the status row that the strength computation
\* of the i-th investor reads (0 for none).  Gives the returned result and
\* the three tables as the call leaves them.
run_scenario(company_id, scenario_row, picks) ==
    ScenarioOver(company_id, scenario_row,
                 IF scenario_row.scenario_type \in SCENARIO_TYPES
                 THEN scenario_row.scenario_type ELSE "custom",
                 _load_investors_for_company(company_id), picks)

----------------------------------------------------------------------------
(* Forecasting: the tables and the calls                                   *)

\* The most scenario runs stored.
MaxRuns == 2

\* A row of term_sheets; parsed_terms_json is the text of the column.
TermSheet(company_id, investor_id, parsed_terms_json) ==
    [ company_id |-> company_id, investor_id |-> investor_id,
      parsed_terms_json |-> parsed_terms_json ]

\* Event logs of earlier days, of investors 1 and 2 of company 1: none; a
\* quick commitment; ten events with every email answered; two ghostings
\* and a quick decline; two episodes.
ScenarioLogs ==
    { << >>,
      << Interaction(1, 1, "intro_sent", StartDay - 5),
         Interaction(1, 1, "meeting_completed", StartDay - 4),
         Interaction(1, 1, "commitment_made", StartDay - 3) >>,
      << Interaction(1, 1, "intro_sent", StartDay - 90),
         Interaction(1, 1, "email_sent", StartDay - 80),
         Interaction(1, 1, "email_reply", StartDay - 79),
         Interaction(1, 1, "meeting_completed", StartDay - 70),
         Interaction(1, 1, "meeting_completed", StartDay - 60),
         Interaction(1, 1, "meeting_completed", StartDay - 50),
         Interaction(1, 1, "meeting_completed", StartDay - 40),
         Interaction(1, 1, "email_sent", StartDay - 30),
         Interaction(1, 1, "email_reply", StartDay - 29),
         Interaction(1, 1, "declined", StartDay - 20) >>,
      << Interaction(1, 2, "ghosted", StartDay - 9),
         Interaction(1, 2, "intro_sent", StartDay - 8),
         Interaction(1, 2, "ghosted", StartDay - 7),
         Interaction(1, 2, "declined", StartDay - 6) >>,
      << Interaction(1, 1, "intro_sent", StartDay - 9),
         Interaction(1, 1, "declined", StartDay - 8),
         Interaction(1, 1, "intro_sent", StartDay - 7),
         Interaction(1, 1, "investment_closed", StartDay - 6) >> }

TermSheetTables ==
    { << >>, << TermSheet(1, 1, "{\"board_seat\": \"yes\"}") >> }

InitScenario ==
    /\ investors = <<invA, invB, invC, invZ>>
    /\ connections = <<>>
    /\ interactions \in ScenarioLogs
    /\ status_history = <<>>
    /\ relationships = <<>>
    /\ investor_behavior_profiles = <<>>
    /\ scenario_runs = <<>>
    /\ term_sheets \in TermSheetTables
    /\ investor_clause_patterns = <<>>
    /\ NoGraphRows
    /\ now = StartDay
    /\ call = NoCall
    /\ ret = NoCall

\* The companies scenarios are run for; company 3 has no investors.
ScenarioCompanyIds == { 1, 2, 3 }

\* The scenario rows passed to run_scenario; "bogus" is not a scenario type.
ScenarioRows ==
    { [ id |-> id, scenario_type |-> t ] :
        id \in { 1, 2 }, t \in { "missed_revenue", "delayed_exit", "bogus" } }

AxisScoreInputs ==
    { [ risk_appetite |-> r, control_orientation |-> c, patience |-> p,
        stress_behavior |-> s, relationship_style |-> 50, conviction_strength |-> v ] :
        r \in { 35, 50, 75 }, c \in { 50, 65 }, p \in { 35, 50, 75 }, s \in { 40, 70 },
        v \in { 35, 50, 75 } }

StrengthInputs == { 0, 55, 69, 70, 100 }

\* The axis confidences that _axis_scores gives for the confidence ce of the
\* episode count and cv of the event count.
AxisConfidence(ce, cv) ==
    [ risk_appetite |-> ce, control_orientation |-> cv, patience |-> ce,
      stress_behavior |-> cv, relationship_style |-> cv, conviction_strength |-> ce ]

\* run_scenario, lines 150-153: the probabilities of one investor, for any
\* scenario type, axis scores and strength.  The computation reads no table.
ComputeReaction ==
    /\ call = NoCall
    /\ \E scenario_type \in SCENARIO_TYPES, axis_scores \in AxisScoreInputs,
          relationship_strength \in StrengthInputs :
        /\ call' = [ op |-> "reaction_probabilities", scenario_type |-> scenario_type,
                     axis_scores |-> axis_scores,
                     relationship_strength |-> relationship_strength ]
        /\ ret' = ReactionProbabilities(scenario_type, axis_scores, relationship_strength)
        /\ UNCHANGED <<investors, connections, interactions, status_history, relationships,
                       forecastVars, graphVars, now>>

\* run_scenario, line 164: the confidence of one investor, for any axis
\* confidences, counts and term-sheet flag.  The computation reads no table.
ComputeConfidence ==
    /\ call = NoCall
    /\ \E ce \in { 1, 4, 7, 10 }, cv \in { 1, 4, 7, 10 },
          episodes_count \in { 0, 1, 2 }, events_count \in { 0, 9, 10 },
          has_term_sheet \in BOOLEAN :
        LET metrics == [ episodes_count |-> episodes_count, events_count |-> events_count ]
        IN  /\ call' = [ op |-> "confidence", axis_conf |-> AxisConfidence(ce, cv),
                         behavior_metrics |-> metrics, has_term_sheet |-> has_term_sheet ]
            /\ ret' = _confidence_from_profile_and_data(AxisConfidence(ce, cv), metrics,
                                                        has_term_sheet)
            /\ UNCHANGED <<investors, connections, interactions, status_history,
                           relationships, forecastVars, graphVars, now>>

\* run_scenario: the profiles and strengths of the company's investors are
\* computed and stored, the run is stored, the result returned.
RunScenario ==
    /\ Len(scenario_runs) < MaxRuns
    /\ \E company_id \in ScenarioCompanyIds, scenario_row \in ScenarioRows :
        LET invs == _load_investors_for_company(company_id)
            latest == LatestStatusRows(company_id,
                                       Entity("org", NoId, "company:" \o IntToStr(company_id)))
        IN  \E picks \in [ DOMAIN invs -> IF latest = {} THEN {0} ELSE latest ] :
              \E r \in { run_scenario(company_id, scenario_row, picks) } :
                  /\ call' = [ op |-> "run_scenario", company_id |-> company_id,
                               scenario_row |-> scenario_row, picks |-> picks ]
                  /\ investor_behavior_profiles' = r.profiles
                  /\ relationships' = r.rels
                  /\ scenario_runs' = r.runs
                  /\ ret' = r.result
                  /\ UNCHANGED <<investors, connections, interactions, status_history,
                                 term_sheets, investor_clause_patterns, graphVars, now>>

\* The two computations of run_scenario for one investor, over all inputs.
NextForecast ==
    \/ ComputeReaction
    \/ ComputeConfidence

SpecForecast == InitScenario /\ [][NextForecast]_vars

NextScenario ==
    \/ Tick
    \/ RunScenario

SpecScenario == InitScenario /\ [][NextScenario]_vars

(***************************************************************************)
(* Properties of the forecasting engine                                    *)
(***************************************************************************)

ReactionRan == call.op = "reaction_probabilities"

ConfidenceRan == call.op = "confidence"

ScenarioRan == call.op = "run_scenario"

\* The six values are fractions of one positive total, none negative, none
\* above the total, and their numerators add up to the total.
IsDistribution(probabilities) ==
    /\ DOMAIN probabilities = Range(ReactionKeys)
    /\ \A k \in DOMAIN probabilities :
          /\ probabilities[k].den > 0
          /\ probabilities[k].den = probabilities.supportive.den
          /\ probabilities[k].num >= 0
          /\ probabilities[k].num <= probabilities[k].den
    /\ SumSeq([ i \in DOMAIN ReactionKeys |-> probabilities[ReactionKeys[i]].num ])
         = probabilities.supportive.den

\* C13: for every scenario type, axis scores and relationship strength, the
\* six reaction probabilities (base distribution, scenario rules,
\* dampening, renormalization) are each in [0, 1] and sum to 1.
C13_ReactionProbabilitiesAreADistribution ==
    ReactionRan =>
        /\ ret = ReactionProbabilities(call.scenario_type, call.axis_scores,
                                       call.relationship_strength)
        /\ IsDistribution(ret.probabilities)

\* A downside scenario in which the control rule, the stress rule and the
\* dampening all applied.
C13_Witness ==
    /\ ReactionRan
    /\ call.scenario_type = "down_round"
    /\ call.axis_scores.control_orientation >= 60
    /\ call.axis_scores.stress_behavior >= 60
    /\ call.relationship_strength >= 70
    /\ Len(ret.factors) = 3
    /\ ret.probabilities.control_push = Fraction(1050, 12000)

\* C14: the confidence is within [0.1, 1.0] (6..60 sixtieths), and with the
\* same axis confidences, episode count and event count it is with a term
\* sheet at least what it is without.
C14_ConfidenceInRangeAndTermSheetNeverLowers ==
    ConfidenceRan =>
        /\ ret = _confidence_from_profile_and_data(call.axis_conf, call.behavior_metrics,
                                                   call.has_term_sheet)
        /\ ret >= 6
        /\ ret <= 60
        /\ _confidence_from_profile_and_data(call.axis_conf, call.behavior_metrics, TRUE)
             >= _confidence_from_profile_and_data(call.axis_conf, call.behavior_metrics, FALSE)

\* A confidence that the term sheet raised, and one that the clamp kept at 1.0
\* exist; the witness is the first.
C14_Witness ==
    /\ ConfidenceRan
    /\ call.has_term_sheet
    /\ ret > _confidence_from_profile_and_data(call.axis_conf, call.behavior_metrics, FALSE)
    /\ call.behavior_metrics.episodes_count >= 2

\* The row that run_scenario stores for a call and its result.
ScenarioRunRow(id, c, result, run_ts) ==
    [ id |-> id, scenario_id |-> c.scenario_row.id, company_id |-> c.company_id,
      run_ts |-> run_ts, results_json |-> result,
      confidence_score |->
          IF result.investors = << >> THEN Fraction(6, 60)
          ELSE Fraction(SumSeq([ i \in DOMAIN result.investors |->
                                   result.investors[i].confidence ]),
                        60 * Len(result.investors)),
      model_version |-> "rules_v1" ]

\* C15: scenario runs are append-only.  Every step that changes
\* scenario_runs, and every step that is a run_scenario call, appends exactly
\* one row, the row of that call's result, and leaves the rows there were as
\* they were: after n calls the table holds the n results in call order.
C15_ScenarioRunsAreAppendOnly ==
    [][ (scenario_runs' # scenario_runs \/ (call' # call /\ call'.op = "run_scenario"))
          => /\ call'.op = "run_scenario"
             /\ scenario_runs' = Append(scenario_runs,
                                        ScenarioRunRow(Len(scenario_runs) + 1, call', ret', now)) ]_vars

\* Two runs are stored, the first for a company with investors, the second
\* for the company without, each row with its own result.
C15_Witness ==
    /\ ScenarioRan
    /\ Len(scenario_runs) = 2
    /\ scenario_runs[1].results_json.investors # << >>
    /\ scenario_runs[2].results_json.investors = << >>
    /\ scenario_runs[2].results_json = ret
    /\ scenario_runs[2].company_id = 3
    /\ scenario_runs[1].id = 1
    /\ scenario_runs[2].id = 2

----------------------------------------------------------------------------
(* The relationships row of a pair, over several pairs                     *)

\* The most pairs whose strength is stored.
MaxKeys == 2

\* The pairs as the callers build them: an investor and a candidate
\* (compute_investor_candidate_strength), an investor and the company
\* context (run_scenario).
UpsertPairs ==
    { InvestorCandidateEntities(1, Candidate("Jane Doe", "Acme Capital", "VP", "NYC", "in/jane")),
      InvestorCandidateEntities(2, Candidate("Jane Doe", "Acme Capital", "VP", "NYC", "in/jane")),
      << Entity("investor", 1, None), Entity("org", NoId, "company:1") >> }

\* compute_relationship_strength for one of several pairs: compute, write
\* the relationships row, return.
RecomputeRelationshipStrength ==
    \E company_id \in CompanyIds, pair \in UpsertPairs,
       shared_investors_count \in { 0, MaxShared } :
      LET from_entity == pair[1]
          to_entity == pair[2]
          latest == LatestStatusRows(company_id, to_entity)
      IN  /\ \/ ExistingRelationships(company_id, from_entity, to_entity) # {}
             \/ Len(relationships) < MaxKeys
          /\ \E picked \in (IF latest = {} THEN {0} ELSE latest) :
               LET result == StrengthResult(company_id, from_entity, to_entity,
                                            shared_investors_count, 0, picked)
               IN  /\ call' = [ op |-> "compute_relationship_strength",
                                company_id |-> company_id,
                                from_entity |-> from_entity, to_entity |-> to_entity,
                                shared_investors_count |-> shared_investors_count,
                                shared_org_count |-> 0,
                                picked |-> picked ]
                   /\ relationships' =
                        UpsertRelationship(company_id, from_entity, to_entity, result)
                   /\ ret' = result
          /\ UNCHANGED <<investors, connections, interactions, status_history, now,
                         forecastVars, graphVars>>

NextUpsert ==
    \/ Tick
    \/ RecomputeRelationshipStrength

SpecUpsert == InitBehavior /\ [][NextUpsert]_vars

\* The key of a relationships row, absent ids and keys as they are.
RelationshipKey(row) ==
    << row.company_id, row.from_type, row.from_id, row.from_key,
       row.to_type, row.to_id, row.to_key >>

\* The key that a call of compute_relationship_strength addresses.
CallKey(c) ==
    << c.company_id, c.from_entity.type, c.from_entity.id, c.from_entity.key,
       c.to_entity.type, c.to_entity.id, c.to_entity.key >>

RowsOfKey(rels, key) == { i \in DOMAIN rels : RelationshipKey(rels[i]) = key }

\* The table after a call for the key of c that returned r: the rows of the
\* other keys are as they were, the key of c has exactly one row, in the
\* place of its earlier row if it had one and new otherwise, with the
\* strength and the factors that the call returned.
WrittenByCall(before, after, c, r) ==
    LET key == CallKey(c)
    IN  /\ Cardinality(RowsOfKey(after, key)) = 1
        /\ Len(after) = Len(before) + (IF RowsOfKey(before, key) = {} THEN 1 ELSE 0)
        /\ \A i \in DOMAIN before :
              IF RelationshipKey(before[i]) = key
              THEN RelationshipKey(after[i]) = key
              ELSE after[i] = before[i]
        /\ \A i \in RowsOfKey(after, key) :
              /\ after[i].relationship_strength = r.relationship_strength
              /\ after[i].strength_factors = json_dumps(r.factors)

\* C16: after any sequence of compute_relationship_strength calls the
\* relationships table holds one row per key (company, from_type, from_id,
\* from_key, to_type, to_id, to_key) computed, an absent id or key being
\* equal only to an absent one, and that row carries the strength and the
\* factors of the latest call for the key: no two rows ever share a key,
\* and every call leaves exactly one row for its key, with what it
\* returned, and the rows of the other keys as they were.
C16_OneRelationshipRowPerKey ==
    /\ [](\A i, j \in DOMAIN relationships :
            RelationshipKey(relationships[i]) = RelationshipKey(relationships[j]) => i = j)
    /\ [][ (relationships' # relationships
              \/ (call' # call /\ call'.op = "compute_relationship_strength"))
            => /\ call'.op = "compute_relationship_strength"
               /\ WrittenByCall(relationships, relationships', call', ret') ]_vars

\* Two keys are stored, and the latest call recomputed the first of them
\* with another strength than the row had when it was inserted.
C16_Witness ==
    /\ call.op = "compute_relationship_strength"
    /\ Len(relationships) = 2
    /\ RelationshipKey(relationships[1]) = CallKey(call)
    /\ RelationshipKey(relationships[2]) # CallKey(call)
    /\ relationships[1].relationship_strength = ret.relationship_strength
    /\ relationships[1].updated_at > relationships[2].updated_at
    /\ relationships[1].relationship_strength # relationships[2].relationship_strength

----------------------------------------------------------------------------
(* access_map.py                                                           *)
(* Edge weights are kept in halves: 1.0 is 2, 1.5 is 3, the cap 5.0 is 10. *)

NODE_TYPE_INVESTOR == "investor"

NODE_TYPE_PERSON == "person"

NODE_TYPE_ORG == "org"

EDGE_TYPE_DIRECT == "direct"

EDGE_TYPE_SECOND_DEGREE == "second_degree"

\* json.dumps of a str or None.  The texts of the model hold no character
\* that json.dumps escapes.
JsonText(x) == IF x = None THEN "null" ELSE "\"" \o x \o "\""

\* json.dumps({"firm": ..., "title": ..., "investor_id": ...})
InvestorMetaJson(inv) ==
    "{\"firm\": " \o JsonText(inv.firm) \o ", \"title\": " \o JsonText(inv.title)
        \o ", \"investor_id\": " \o IntToStr(inv.id) \o "}"

\* json.dumps({"shared_investors_count": n})
SharedMetaJson(n) == "{\"shared_investors_count\": " \o IntToStr(n) \o "}"

\* SELECT ... FROM connections WHERE investor_id IN (...), with no filter on
\* the name.  SQLite answers it from idx_connections_investor: the rows come
\* by investor_id, rows of one investor in the order of the table.
AccessMapConnections(investor_ids) ==
    LET rows == SelectSeq(connections, LAMBDA c : c.investor_id \in Range(investor_ids))
        pos(i) == 1 + Cardinality({ j \in DOMAIN rows :
                        \/ rows[j].investor_id < rows[i].investor_id
                        \/ (rows[j].investor_id = rows[i].investor_id /\ j < i) })
    IN  [ p \in DOMAIN rows |-> rows[CHOOSE i \in DOMAIN rows : pos(i) = p] ]

\* A person label that is never empty
PersonLabelOrPlaceholder(fn) == IF fn # "" THEN fn ELSE "Unknown"

person_label(r) ==
    PersonLabelOrPlaceholder(OverlapPersonName(r))

\* pk = normalize_name(label) or label.lower()
AccessPersonKey(r) ==
    LET label == person_label(r)
        n == normalize_name(label)
    IN  IF n # "" THEN n ELSE Lower(label)

\* org = (r["company"] or "").strip().lower()
AccessOrgKey(r) == Lower(Strip(OrEmpty(r.company)))

\* weight = min(1.0 + (n - 1) * 0.5, 5.0), in halves
DirectWeight(n) == Min(2 + (n - 1), 10)

\* The value of build_access_map before it stores: nodes, edges and metrics.
AccessGraph(company_id) ==
    LET invs == OverlapInvestors(company_id)
        investor_ids == [ i \in DOMAIN invs |-> invs[i].id ]
        conns == AccessMapConnections(investor_ids)
        pks == [ i \in DOMAIN conns |-> AccessPersonKey(conns[i]) ]
        oks == [ i \in DOMAIN conns |-> AccessOrgKey(conns[i]) ]
        person_investors == KeyToInvestors(conns, pks)
        org_investors == KeyToInvestors(conns, oks)
        people == InsertionOrder(pks)
        orgs == InsertionOrder(oks)
        firstRow(keys, k) == CHOOSE i \in DOMAIN keys :
                                keys[i] = k /\ \A j \in DOMAIN keys : keys[j] = k => i <= j
        inv_nid(investor_id) ==
            LET at == { i \in DOMAIN invs : invs[i].id = investor_id }
            IN  IF at = {} THEN NoId ELSE CHOOSE i \in at : \A j \in at : j <= i
        person_nid(pk) ==
            Len(invs) + (CHOOSE p \in DOMAIN people : people[p] = pk)
        org_nid(ok) ==
            Len(invs) + Len(people) + (CHOOSE p \in DOMAIN orgs : orgs[p] = ok)
        investor_nodes ==
            [ i \in DOMAIN invs |->
                [ id |-> i, company_id |-> company_id, node_type |-> NODE_TYPE_INVESTOR,
                  label |-> OrEmpty(invs[i].full_name),
                  meta_json |-> InvestorMetaJson(invs[i]) ] ]
        person_nodes ==
            [ p \in DOMAIN people |->
                [ id |-> Len(invs) + p, company_id |-> company_id,
                  node_type |-> NODE_TYPE_PERSON,
                  label |-> person_label(conns[firstRow(pks, people[p])]),
                  meta_json |-> SharedMetaJson(Cardinality(person_investors[people[p]])) ] ]
        org_nodes ==
            [ p \in DOMAIN orgs |->
                [ id |-> Len(invs) + Len(people) + p, company_id |-> company_id,
                  node_type |-> NODE_TYPE_ORG, label |-> orgs[p],
                  meta_json |-> SharedMetaJson(Cardinality(org_investors[orgs[p]])) ] ]
        direct ==
            [ i \in DOMAIN conns |->
                [ from_node_id |-> inv_nid(conns[i].investor_id),
                  to_node_id |-> person_nid(pks[i]),
                  edge_type |-> EDGE_TYPE_DIRECT,
                  weight |-> DirectWeight(Cardinality(person_investors[pks[i]])) ] ]
        with_org == SelectSeq([ i \in DOMAIN conns |-> i ], LAMBDA i : oks[i] # "")
        second ==
            [ j \in DOMAIN with_org |->
                [ from_node_id |-> person_nid(pks[with_org[j]]),
                  to_node_id |-> org_nid(oks[with_org[j]]),
                  edge_type |-> EDGE_TYPE_SECOND_DEGREE,
                  weight |-> 2 ] ]
        nodes == investor_nodes \o person_nodes \o org_nodes
        edges == direct \o second
    IN  IF investor_ids = <<>>
        THEN [ nodes |-> <<>>, edges |-> <<>>, metrics |-> << >> ]
        ELSE [ nodes |-> nodes, edges |-> edges,
               metrics |-> [ node_count |-> Len(nodes), edge_count |-> Len(edges),
                             investor_count |-> Len(invs),
                             person_count |-> Cardinality(DOMAIN person_investors),
                             org_count |-> Cardinality(DOMAIN org_investors) ] ]

\* DELETE FROM <table> WHERE company_id = ?, committed together for the two
\* tables before anything is inserted.
DeleteKeepsCompanyRows(table, company_id) == table

DeleteCompanyRows(table, company_id) ==
    SelectSeq(table, LAMBDA r : r.company_id # company_id)

\* id_map: in-memory node id -> the id given by AUTOINCREMENT, seq being the
\* largest id given so far (a later node with the same in-memory id wins).
StoredNodeId(nodes, seq, id) ==
    LET at == { i \in DOMAIN nodes : nodes[i].id = id }
    IN  IF at = {} THEN NoId ELSE seq + (CHOOSE i \in at : \A j \in at : j <= i)

\* The INSERTs into network_nodes
InsertNodes(table, seq, nodes, created_at) ==
    table \o [ i \in DOMAIN nodes |->
                 [ id |-> seq + i, company_id |-> nodes[i].company_id,
                   node_type |-> nodes[i].node_type, label |-> nodes[i].label,
                   meta_json |-> nodes[i].meta_json, created_at |-> created_at ] ]

\* The INSERTs into network_edges, for the edges whose two ends are in id_map
InsertEdges(table, seq, company_id, nodes, node_seq, edges, created_at) ==
    LET mapped == SelectSeq(edges, LAMBDA e :
                     /\ StoredNodeId(nodes, node_seq, e.from_node_id) # NoId
                     /\ StoredNodeId(nodes, node_seq, e.to_node_id) # NoId)
    IN  table \o [ j \in DOMAIN mapped |->
                     [ id |-> seq + j, company_id |-> company_id,
                       from_node_id |-> StoredNodeId(nodes, node_seq, mapped[j].from_node_id),
                       to_node_id |-> StoredNodeId(nodes, node_seq, mapped[j].to_node_id),
                       edge_type |-> mapped[j].edge_type, weight |-> mapped[j].weight,
                       meta_json |-> None, created_at |-> created_at ] ]

\* SELECT ... FROM network_nodes / network_edges WHERE company_id = ?
StoredRows(table, company_id) ==
    SelectSeq(table, LAMBDA r : r.company_id = company_id)

load_access_map(company_id) ==
    LET nodes == StoredRows(network_nodes, company_id)
        edges == StoredRows(network_edges, company_id)
    IN  [ nodes |-> nodes, edges |-> edges,
          metrics |-> [ node_count |-> Len(nodes), edge_count |-> Len(edges) ] ]

----------------------------------------------------------------------------
(* The access-map page and the deletion of investors.  build_access_map   *)
(* commits twice: the tables hold what is committed, rebuild holds the    *)
(* build between its first commit and its second.                         *)

MaxNodeId == 8

\* The connections tables of the access-map behaviours: none; a person of two
\* investors under two spellings and a row without a name; a shared person
\* whose rows are stored against the order of the investors, and a row of the
\* other company; a shared person, and a row with first and last name only;
\* only a row without a name.
AccessMapTables ==
    LET Rows(idx) == [ i \in DOMAIN idx |-> ConnectionRows[idx[i]] ]
    IN  { <<>>, Rows(<<1, 2, 12>>), Rows(<<7, 6, 11>>), Rows(<<1, 3, 8>>),
          << Conn(1, "", "", "", "Acme Capital", "VP", "", "") >> }

InitAccessMap ==
    /\ investors = <<invA, invB, invC, invZ>>
    /\ connections \in AccessMapTables
    /\ interactions = <<>>
    /\ status_history = <<>>
    /\ relationships = <<>>
    /\ NoForecastRows
    /\ NoGraphRows
    /\ now = StartDay
    /\ call = NoCall
    /\ ret = NoCall

\* build_access_map(company_id, db, store=True) up to the first commit of
\* _store_access_map; for a company without investors, the whole call.
BuildAccessMapBegin ==
    \E company_id \in CompanyIds :
        \E g \in { AccessGraph(company_id) } :
            /\ rebuild = NoRebuild
            /\ sqlite_sequence.network_nodes + Len(g.nodes) <= MaxNodeId
            /\ call' = [ op |-> "build_access_map", company_id |-> company_id ]
            /\ IF OverlapInvestors(company_id) = <<>>
               THEN /\ ret' = g
                    /\ UNCHANGED graphVars
               ELSE /\ network_nodes' = DeleteCompanyRows(network_nodes, company_id)
                    /\ network_edges' = DeleteCompanyRows(network_edges, company_id)
                    /\ rebuild' = [ company_id |-> company_id, result |-> g,
                                    deleted_nodes |-> StoredRows(network_nodes, company_id),
                                    deleted_edges |-> StoredRows(network_edges, company_id) ]
                    /\ ret' = NoCall
                    /\ UNCHANGED sqlite_sequence
            /\ UNCHANGED <<investors, connections, interactions, status_history,
                           relationships, forecastVars, now>>

\* The rest of _store_access_map: the INSERTs and the second commit, and the
\* return of build_access_map.
BuildAccessMapFinish ==
    /\ rebuild # NoRebuild
    /\ LET g == rebuild.result
       IN  /\ network_nodes' = InsertNodes(network_nodes, sqlite_sequence.network_nodes,
                                           g.nodes, now)
           /\ network_edges' = InsertEdges(network_edges, sqlite_sequence.network_edges,
                                           rebuild.company_id, g.nodes,
                                           sqlite_sequence.network_nodes, g.edges, now)
           /\ sqlite_sequence' =
                [ network_nodes |-> sqlite_sequence.network_nodes + Len(g.nodes),
                  network_edges |-> sqlite_sequence.network_edges
                                      + Len(network_edges') - Len(network_edges) ]
           /\ ret' = g
    /\ rebuild' = NoRebuild
    /\ UNCHANGED <<investors, connections, interactions, status_history,
                   relationships, forecastVars, now, call>>

\* The process stops between the two commits: the INSERTs that were not
\* committed are rolled back, the committed deletion stays.
CrashDuringRebuild ==
    /\ rebuild # NoRebuild
    /\ call' = [ op |-> "crash", company_id |-> rebuild.company_id, rebuild |-> rebuild ]
    /\ ret' = NoCall
    /\ rebuild' = NoRebuild
    /\ UNCHANGED <<investors, connections, interactions, status_history,
                   relationships, forecastVars, now, network_nodes, network_edges,
                   sqlite_sequence>>

\* delete_investor: DELETE FROM investors WHERE id = ?; the investor's
\* connections go with it (ON DELETE CASCADE, foreign_keys = ON).
DeleteInvestor ==
    \E investor_id \in { investors[i].id : i \in DOMAIN investors } :
        /\ rebuild = NoRebuild
        /\ investors' = SelectSeq(investors, LAMBDA r : r.id # investor_id)
        /\ connections' = SelectSeq(connections, LAMBDA c : c.investor_id # investor_id)
        /\ call' = [ op |-> "delete_investor", investor_id |-> investor_id ]
        /\ ret' = NoCall
        /\ UNCHANGED <<interactions, status_history, relationships, forecastVars,
                       graphVars, now>>

NextAccessMap ==
    \/ BuildAccessMapBegin
    \/ BuildAccessMapFinish
    \/ CrashDuringRebuild
    \/ DeleteInvestor

SpecAccessMap == InitAccessMap /\ [][NextAccessMap]_vars

----------------------------------------------------------------------------
(* Properties of the access map                                            *)

\* build_access_map has returned and nothing has run since
BuildCompleted == call.op = "build_access_map" /\ rebuild = NoRebuild

\* The stored nodes sn and edges se are the build's nodes and edges: node for
\* node with the same type, label and meta_json under ids of their own, edge
\* for edge between the stored nodes of the same two in-memory nodes.
StoredGraphIs(sn, se, g) ==
    /\ Len(sn) = Len(g.nodes)
    /\ \A i \in DOMAIN sn :
         /\ sn[i].node_type = g.nodes[i].node_type
         /\ sn[i].label = g.nodes[i].label
         /\ sn[i].meta_json = g.nodes[i].meta_json
         /\ \A j \in DOMAIN sn : sn[j].id = sn[i].id => j = i
    /\ Len(se) = Len(g.edges)
    /\ \A j \in DOMAIN se :
         /\ se[j].edge_type = g.edges[j].edge_type
         /\ se[j].weight = g.edges[j].weight
         /\ \E a \in DOMAIN sn : /\ sn[a].id = se[j].from_node_id
                                 /\ g.nodes[a].id = g.edges[j].from_node_id
         /\ \E b \in DOMAIN sn : /\ sn[b].id = se[j].to_node_id
                                 /\ g.nodes[b].id = g.edges[j].to_node_id

\* C17: after build_access_map(company, store=True) has completed, the stored
\* nodes and edges of the company are exactly the nodes and edges of this
\* build: nothing of an earlier build remains, every built node is stored
\* once, every stored edge joins the stored nodes of its two built ends.
C17_StoredGraphIsThisBuild ==
    BuildCompleted =>
        StoredGraphIs(StoredRows(network_nodes, call.company_id),
                      StoredRows(network_edges, call.company_id), ret)

\* C18: the rebuild is not atomic.  Between the two commits the committed
\* graph of the company is empty while the new graph has nodes, and a crash
\* there leaves that state: the stored graph is not the new graph and, when
\* the old graph had nodes or edges, not the old graph either.
C18_RebuildIsNotAtomic ==
    /\ rebuild # NoRebuild =>
         /\ StoredRows(network_nodes, rebuild.company_id) = <<>>
         /\ StoredRows(network_edges, rebuild.company_id) = <<>>
         /\ rebuild.result.nodes # <<>>
    /\ call.op = "crash" =>
         LET sn == StoredRows(network_nodes, call.company_id)
             se == StoredRows(network_edges, call.company_id)
         IN  /\ ~StoredGraphIs(sn, se, call.rebuild.result)
             /\ call.rebuild.deleted_nodes # <<>> => sn # call.rebuild.deleted_nodes
             /\ call.rebuild.deleted_edges # <<>> => se # call.rebuild.deleted_edges

\* A crash between the commits of a rebuild that replaces a stored graph with
\* nodes and edges by a graph with nodes and edges: neither is stored.
C18_Witness ==
    /\ call.op = "crash"
    /\ call.rebuild.deleted_nodes # <<>>
    /\ call.rebuild.deleted_edges # <<>>
    /\ call.rebuild.result.edges # <<>>
    /\ StoredRows(network_nodes, call.company_id) = <<>>
    /\ StoredRows(network_edges, call.company_id) = <<>>

\* The connections of the company's investors that have a derivable name
NamedConnections(company_id) ==
    SelectSeq(connections, LAMBDA c :
        /\ c.investor_id \in { r.id : r \in Range(OverlapInvestors(company_id)) }
        /\ OverlapPersonName(c) # "")

----------------------------------------------------------------------------
(* json.loads, for the JSON texts of the model: an object whose values are *)
(* strings without escapes, integers, true, false or null, with blanks     *)
(* between the tokens; every other text of the model is malformed.         *)

\* The word w stands at position i of s
StartsAt(s, i, w) == i + Len(w) - 1 <= Len(s) /\ SubSeq(s, i, i + Len(w) - 1) = w

\* The first position from i on that holds no blank
RECURSIVE SkipWs(_, _)
SkipWs(s, i) == IF i <= Len(s) /\ IsSpace(Ch(s, i)) THEN SkipWs(s, i + 1) ELSE i

\* The position of the quote that closes a string whose text starts at j, 0
\* if there is none
RECURSIVE StringEnd(_, _)
StringEnd(s, j) ==
    IF j > Len(s) \/ Ch(s, j) = "\\" THEN 0
    ELSE IF Ch(s, j) = "\"" THEN j
    ELSE StringEnd(s, j + 1)

\* The first position from j on that holds no digit
RECURSIVE DigitsEnd(_, _)
DigitsEnd(s, j) ==
    IF j <= Len(s) /\ Ch(s, j) \in Chars(DigitChars) THEN DigitsEnd(s, j + 1) ELSE j

\* json.JSONDecodeError
JsonError == [ ok |-> FALSE, value |-> << >>, next |-> 0 ]

JsonValue(type, text) == [ type |-> type, text |-> text ]

\* The value that starts at position i
ScanValue(s, i) ==
    LET Found(v, next) == [ ok |-> TRUE, value |-> v, next |-> next ]
        e == StringEnd(s, i + 1)
        d == DigitsEnd(s, i)
    IN  IF StartsAt(s, i, "\"")
        THEN IF e = 0 THEN JsonError
             ELSE Found(JsonValue("str", SubSeq(s, i + 1, e - 1)), e + 1)
        ELSE IF StartsAt(s, i, "null") THEN Found(JsonValue("null", "null"), i + 4)
        ELSE IF StartsAt(s, i, "true") THEN Found(JsonValue("bool", "true"), i + 4)
        ELSE IF StartsAt(s, i, "false") THEN Found(JsonValue("bool", "false"), i + 5)
        ELSE IF d > i /\ (d = i + 1 \/ Ch(s, i) # "0")
        THEN Found(JsonValue("int", SubSeq(s, i, d - 1)), d)
        ELSE JsonError

\* The members of an object from the key at position i on, added to acc (a
\* key given twice keeps its last value), up to the closing brace
RECURSIVE ScanMembers(_, _, _)
ScanMembers(s, i, acc) ==
    LET ke == StringEnd(s, i + 1)
        key == SubSeq(s, i + 1, ke - 1)
        c == SkipWs(s, ke + 1)
        v == ScanValue(s, SkipWs(s, c + 1))
        acc2 == [ k \in DOMAIN acc \cup {key} |-> IF k = key THEN v.value ELSE acc[k] ]
        d == SkipWs(s, v.next)
    IN  IF ~StartsAt(s, i, "\"") \/ ke = 0 THEN JsonError
        ELSE IF ~StartsAt(s, c, ":") THEN JsonError
        ELSE IF ~v.ok THEN JsonError
        ELSE IF StartsAt(s, d, ",") THEN ScanMembers(s, SkipWs(s, d + 1), acc2)
        ELSE IF StartsAt(s, d, "}") THEN [ ok |-> TRUE, value |-> acc2, next |-> d + 1 ]
        ELSE JsonError

\* json.loads(s): ok and the dict, or the error
json_loads(s) ==
    LET i == SkipWs(s, 1)
        j == SkipWs(s, i + 1)
        r == IF StartsAt(s, j, "}") THEN [ ok |-> TRUE, value |-> << >>, next |-> j + 1 ]
             ELSE ScanMembers(s, j, << >>)
    IN  IF ~StartsAt(s, i, "{") THEN JsonError
        ELSE IF r.ok /\ SkipWs(s, r.next) = Len(s) + 1 THEN r
        ELSE JsonError

----------------------------------------------------------------------------
(* negotiation_intelligence.py                                             *)

CLAUSE_KEYS ==
    << "liquidation_pref", "participation", "board_seat", "protective_provisions",
       "drag_along", "pro_rata", "redemption", "veto_rights" >>

\* `if r["parsed_terms_json"]:` and `if node.get("meta_json"):`
TruthyText(text) == text # None /\ text # ""

\* The loop of _load_term_sheets: the dicts of the rows whose text parses
LoadParsedSheets(rows) ==
    LET texts == SelectSeq(rows, LAMBDA r : TruthyText(r.parsed_terms_json))
        parsed == [ i \in DOMAIN texts |-> json_loads(texts[i].parsed_terms_json) ]
        good == SelectSeq(parsed, LAMBDA p : p.ok)
    IN  [ i \in DOMAIN good |-> good[i].value ]

\* SELECT parsed_terms_json FROM term_sheets WHERE company_id = ? AND investor_id = ?
TermSheetRows(company_id, investor_id) ==
    SelectSeq(term_sheets, LAMBDA r : r.company_id = company_id /\ r.investor_id = investor_id)

_load_term_sheets(company_id, investor_id) ==
    LoadParsedSheets(TermSheetRows(company_id, investor_id))

\* ts.get(k) not in (None, "", "none", "off")
ClausePresent(ts, k) ==
    /\ k \in DOMAIN ts
    /\ ts[k].type # "null"
    /\ ~(ts[k].type = "str" /\ ts[k].text \in {"", "none", "off"})

_aggregate_clause_stats(sheets) ==
    LET total == IF Len(sheets) = 0 THEN 1 ELSE Len(sheets)
        freq == [ k \in Range(CLAUSE_KEYS) |->
                    Cardinality({ i \in DOMAIN sheets : ClausePresent(sheets[i], k) }) ]
    IN  [ frequency |-> freq,
          likelihood |-> [ k \in Range(CLAUSE_KEYS) |-> Fraction(freq[k], total) ] ]

\* (founder_friendliness_score, control_risk_score).  The likelihoods of one
\* call have one denominator t: the weights are e / t and c / t.
_scores_from_clause_stats(stats) ==
    LET like == stats.likelihood
        t == like["board_seat"].den
        e == like["liquidation_pref"].num + like["participation"].num + like["redemption"].num
        c == like["board_seat"].num + like["protective_provisions"].num
                + like["veto_rights"].num + like["drag_along"].num
        econ_risk == Fraction(Min(e, 3 * t), 3 * t)
        control_risk == Fraction(Min(c, 4 * t), 4 * t)
        worst == IF econ_risk.num * control_risk.den >= control_risk.num * econ_risk.den
                 THEN econ_risk ELSE control_risk
    IN  [ founder_friendliness_score |->
              RoundHalfEven(100 * (worst.den - worst.num), worst.den),
          control_risk_score |-> RoundHalfEven(100 * control_risk.num, control_risk.den) ]

\* The UPDATE or INSERT of update_investor_clause_patterns.  clause_stats_json
\* holds json.dumps(stats); the model keeps stats itself.
UpsertClausePatterns(patterns, company_id, investor_id, stats, scores) ==
    LET at == { i \in DOMAIN patterns : /\ patterns[i].company_id = company_id
                                       /\ patterns[i].investor_id = investor_id }
        row == CHOOSE i \in at : \A j \in at : i <= j
    IN  IF at # {}
        THEN [ patterns EXCEPT
                 ![row] = [ @ EXCEPT !.clause_stats_json = stats,
                                     !.founder_friendliness_score = scores.founder_friendliness_score,
                                     !.control_risk_score = scores.control_risk_score,
                                     !.updated_at = now ] ]
        ELSE Append(patterns,
                    [ id |-> Len(patterns) + 1, company_id |-> company_id,
                      investor_id |-> investor_id, clause_stats_json |-> stats,
                      founder_friendliness_score |-> scores.founder_friendliness_score,
                      control_risk_score |-> scores.control_risk_score,
                      updated_at |-> now ])

update_investor_clause_patterns(company_id, investor_id) ==
    LET stats == _aggregate_clause_stats(_load_term_sheets(company_id, investor_id))
        scores == _scores_from_clause_stats(stats)
    IN  [ clause_stats |-> stats,
          founder_friendliness_score |-> scores.founder_friendliness_score,
          control_risk_score |-> scores.control_risk_score ]

----------------------------------------------------------------------------
(* The clause patterns page.  No statement of the repository writes        *)
(* term_sheets: the behaviours start from the tables an import may have    *)
(* left.                                                                   *)

MaxSheets == 2

\* Term sheets of investors 1 and 2 of company 1: one clause; clauses given
\* as absent ("none", "off", null, "") beside clauses present; a text cut
\* short; a text that is no JSON; an object without members; an empty text;
\* no text; a sheet of the other investor.
SheetRows ==
    << TermSheet(1, 1, "{\"board_seat\": \"yes\"}"),
       TermSheet(1, 1, "{\"board_seat\": \"none\", \"veto_rights\": \"off\", \"pro_rata\": null, \"redemption\": \"\", \"drag_along\": true, \"liquidation_pref\": \"2x\", \"participation\": 0} "),
       TermSheet(1, 1, "{\"board_seat\": \"yes\", \"veto_rights\": "),
       TermSheet(1, 1, "board_seat=yes"),
       TermSheet(1, 1, " { } "),
       TermSheet(1, 1, ""),
       TermSheet(1, 1, None),
       TermSheet(1, 2, "{\"veto_rights\": \"yes\", \"protective_provisions\": \"standard\"}") >>

\* Tables of at most MaxSheets of these rows, in the order of SheetRows
SheetTables ==
    LET picks == { S \in SUBSET DOMAIN SheetRows : Cardinality(S) <= MaxSheets }
        nth(S, j) == CHOOSE i \in S : Cardinality({ k \in S : k < i }) = j - 1
    IN  { [ j \in 1..Cardinality(S) |-> SheetRows[nth(S, j)] ] : S \in picks }

InitClauses ==
    /\ investors = <<invA, invB, invC, invZ>>
    /\ connections = <<>>
    /\ interactions = <<>>
    /\ status_history = <<>>
    /\ relationships = <<>>
    /\ investor_behavior_profiles = <<>>
    /\ scenario_runs = <<>>
    /\ term_sheets \in SheetTables
    /\ investor_clause_patterns = <<>>
    /\ NoGraphRows
    /\ now = StartDay
    /\ call = NoCall
    /\ ret = NoCall

UpdateInvestorClausePatterns ==
    \E company_id \in {1}, investor_id \in {1, 2} :
        \E r \in { update_investor_clause_patterns(company_id, investor_id) } :
            /\ investor_clause_patterns' =
                 UpsertClausePatterns(investor_clause_patterns, company_id, investor_id,
                                      r.clause_stats, r)
            /\ call' = [ op |-> "update_investor_clause_patterns",
                         company_id |-> company_id, investor_id |-> investor_id ]
            /\ ret' = r
            /\ UNCHANGED <<investors, connections, interactions, status_history,
                           relationships, investor_behavior_profiles, scenario_runs,
                           term_sheets, graphVars, now>>

NextClauses == Tick \/ UpdateInvestorClausePatterns

SpecClauses == InitClauses /\ [][NextClauses]_vars

----------------------------------------------------------------------------
(* Properties of the clause patterns                                       *)

ClausesRan == call.op = "update_investor_clause_patterns"

\* The term sheets of the call that have a text
SheetsWithText ==
    SelectSeq(TermSheetRows(call.company_id, call.investor_id),
              LAMBDA r : TruthyText(r.parsed_terms_json))

\* C20 (term sheets): a term sheet whose parsed_terms_json is malformed is
\* read as an empty object: it has no clause present and it is included in
\* the total that the clause likelihoods divide by, so every likelihood is
\* the frequency over the number of term sheets that have a text.
C20_MalformedTermSheetCountsInTotal ==
    ClausesRan =>
        \A k \in Range(CLAUSE_KEYS) :
            /\ ret.clause_stats.likelihood[k].num = ret.clause_stats.frequency[k]
            /\ ret.clause_stats.likelihood[k].den = Max(1, Len(SheetsWithText))

----------------------------------------------------------------------------
(* Replays.  The three computations that store what they compute, called   *)
(* again and again on inputs that nothing changes.                         *)

\* The interaction logs of investor 1 of company 1: none, and one decision
\* episode with a meeting.
ReplayLogs ==
    { <<>>,
      << Interaction(1, 1, "intro_sent", StartDay - 3),
         Interaction(1, 1, "meeting_completed", StartDay - 2),
         Interaction(1, 1, "commitment_made", StartDay - 1) >> }

\* The term sheets: none, and two sheets of investor 1, one of them cut short.
ReplaySheets ==
    { <<>>, << SheetRows[1], SheetRows[3] >> }

\* The connections: none, and a person shared by two investors of company 1
\* with a connection of the investor of company 2.
ReplayConnections ==
    { <<>>, [ i \in 1..3 |-> ConnectionRows[<<7, 6, 11>>[i]] ] }

InitReplay ==
    /\ investors = <<invA, invB, invC, invZ>>
    /\ connections \in ReplayConnections
    /\ interactions \in ReplayLogs
    /\ status_history = <<>>
    /\ relationships = <<>>
    /\ investor_behavior_profiles = <<>>
    /\ scenario_runs = <<>>
    /\ term_sheets \in ReplaySheets
    /\ investor_clause_patterns = <<>>
    /\ NoGraphRows
    /\ now = StartDay
    /\ call = NoCall
    /\ ret = NoCall

NextReplay ==
    \/ rebuild = NoRebuild /\ Tick
    \/ rebuild = NoRebuild /\ ComputeBehaviorProfile
    \/ rebuild = NoRebuild /\ UpdateInvestorClausePatterns
    \/ BuildAccessMapBegin
    \/ BuildAccessMapFinish

SpecReplay == InitReplay /\ [][NextReplay]_vars

\* Two tables of rows hold the same content: row for row the same but for
\* updated_at.
SameButUpdatedAt(a, b) ==
    /\ Len(a) = Len(b)
    /\ \A i \in DOMAIN a : [ a[i] EXCEPT !.updated_at = NoTs ] = [ b[i] EXCEPT !.updated_at = NoTs ]

\* The step is a second call of the computation that was the latest call,
\* with the same arguments.
ReplayOf(op) == call.op = op /\ call' = call

\* C21: replaying a computation is idempotent.  A second call of
\* compute_behavior_profile, update_investor_clause_patterns or
\* build_access_map with nothing changed in between leaves the stored content
\* of the first call (timestamps and node ids apart) and adds no row: the
\* profile and pattern tables are the same but for updated_at; the graph that
\* the second build deletes is, node for node and edge for edge, the graph it
\* stores, the rows of other companies stay, and a build of a company without
\* investors leaves the graph tables alone.
C21_ReplayIsIdempotent ==
    [][ /\ ReplayOf("compute_behavior_profile") =>
            /\ SameButUpdatedAt(investor_behavior_profiles, investor_behavior_profiles')
            /\ UNCHANGED <<investor_clause_patterns, graphVars>>
        /\ ReplayOf("update_investor_clause_patterns") =>
            /\ SameButUpdatedAt(investor_clause_patterns, investor_clause_patterns')
            /\ UNCHANGED <<investor_behavior_profiles, graphVars>>
        /\ (ReplayOf("build_access_map") /\ rebuild = NoRebuild) =>
            /\ UNCHANGED <<investor_behavior_profiles, investor_clause_patterns>>
            /\ \/ UNCHANGED graphVars
               \/ /\ rebuild'.company_id = call.company_id
                  /\ StoredGraphIs(rebuild'.deleted_nodes, rebuild'.deleted_edges,
                                   rebuild'.result)
        /\ (rebuild # NoRebuild /\ rebuild' = NoRebuild /\ ret' = rebuild.result) =>
            /\ StoredGraphIs(StoredRows(network_nodes', rebuild.company_id),
                             StoredRows(network_edges', rebuild.company_id),
                             rebuild.result)
            /\ \A c \in CompanyIds \ { rebuild.company_id } :
                 /\ StoredRows(network_nodes', c) = StoredRows(network_nodes, c)
                 /\ StoredRows(network_edges', c) = StoredRows(network_edges, c)
      ]_vars

\* The graph of company 2 has been built twice and nothing else is stored in
\* the graph tables: the nodes have the ids after those of the first build.
\* The profile and the two pattern rows are stored as well, written last on
\* the day after the start.
C21_Witness ==
    /\ BuildCompleted
    /\ call.company_id = 2
    /\ network_edges # <<>>
    /\ \A i \in DOMAIN network_nodes : network_nodes[i].company_id = 2
    /\ sqlite_sequence.network_nodes = 2 * Len(network_nodes)
    /\ \A i \in DOMAIN network_nodes : network_nodes[i].id > Len(network_nodes)
    /\ Len(investor_behavior_profiles) = 1
    /\ investor_behavior_profiles[1].updated_at = StartDay + 1
    /\ Len(investor_clause_patterns) = 2
    /\ investor_clause_patterns[1].updated_at = StartDay + 1
    /\ interactions # <<>>
    /\ term_sheets # <<>>

----------------------------------------------------------------------------
(* The order of the pipeline's stages                                      *)

\* The scored connections of a person that fired 2 or more categories each.
StrongOfPerson(key) ==
    { i \in ScoredOfPerson(key) : Cardinality(CallScored[i].signals) >= MIN_SIGNAL_CATEGORIES }

\* The categories fired by any connection of a person.
CategoriesOfPerson(key) == UNION { CallScored[i].signals : i \in ScoredOfPerson(key) }

\* The persons of the latest run: the normalized names of its scored connections.
CallPersons == { normalize_name(CallScored[i].candidate.name) : i \in DOMAIN CallScored } \ { "" }

\* The persons that the deduplication against the investors lets through.
PersonsNotExisting ==
    { m.key : m \in Range(apply_dedup(CallMerged, CallInvestors, FUZZY_NAME_THRESHOLD)) }

\* C22 (the claim as stated): the gate is applied to each scored connection
\* before the merge, so a connection that fired fewer than 2 distinct
\* categories contributes no signal, reason or source investor to a returned
\* candidate: what a returned candidate carries comes from the connections of
\* its person that fired 2 or more categories each.
C22_GateBeforeMerge ==
    PipelineRan =>
        \A e \in Range(ret.suggested_list) :
            LET strong == StrongOfPerson(normalize_name(e.name))
            IN  /\ e.signals = UNION { CallScored[i].signals : i \in strong }
                /\ Range(e.reasons) = UNION { Range(CallScored[i].reasons) : i \in strong }
                /\ e.shared_investors_count =
                      Cardinality({ CallScored[i].candidate.source_investor_id : i \in strong })

\* C22 (amended): the stages run in the order score, merge, gate, dedup.  The
\* gate is applied to each merged candidate: a person is returned only if the
\* categories fired by all of its connections together are 2 or more, the
\* returned candidate carries the signals of all of them, whatever each fired
\* alone, and when the list is not cut at top_n the returned persons are
\* exactly those with 2 or more categories that match no investor.
C22_GateAppliesToMergedCandidates ==
    PipelineRan =>
        LET out == ret.suggested_list
            returned == { normalize_name(out[i].name) : i \in DOMAIN out }
            passing == { k \in CallPersons \cap PersonsNotExisting :
                           Cardinality(CategoriesOfPerson(k)) >= MIN_SIGNAL_CATEGORIES }
        IN  /\ returned \subseteq passing
            /\ Len(out) < call.top_n => returned = passing
            /\ \A e \in Range(out) : e.signals = CategoriesOfPerson(normalize_name(e.name))

\* C22 witness: a returned candidate merged from the connections of two
\* investors, none of which fired 2 categories alone.
C22_Witness ==
    /\ PipelineRan
    /\ \E e \in Range(ret.suggested_list) :
          /\ StrongOfPerson(normalize_name(e.name)) = {}
          /\ e.shared_investors_count >= 2

----------------------------------------------------------------------------
(* The events of a pair                                                    *)

\* The interactions of the company of the latest call that name its from
\* entity or its to entity.
PairRows ==
    { i \in DOMAIN interactions :
        /\ interactions[i].company_id = call.company_id
        /\ \/ RefersTo(interactions[i], call.from_entity)
           \/ RefersTo(interactions[i], call.to_entity) }

\* Their number per event type, and the latest of their timestamps.
PairCounts ==
    [ et \in { interactions[i].event_type : i \in PairRows } |->
        Cardinality({ i \in PairRows : interactions[i].event_type = et }) ]

PairLastTs ==
    IF PairRows = {} THEN NoTs
    ELSE CHOOSE t \in { interactions[i].event_ts : i \in PairRows } :
           \A i \in PairRows : interactions[i].event_ts <= t

\* C23: the strength that compute_relationship_strength returns is the one
\* computed from the interactions of its company that name one of the two
\* entities, and from no other row: the event counts are the numbers of those
\* rows per event type, and last_interaction_ts is the maximum of their
\* event_ts.  Rows of other companies and rows that name neither entity change
\* nothing.
C23_StrengthUsesOnlyRowsOfThePair ==
    StrengthJustReturned =>
        LET net == _network_points(call.shared_investors_count, call.shared_org_count)
            intensity == _intensity_points(PairCounts)
            rec == _recency_points(_days_ago(PairLastTs))
            prog == _progress_points(_latest_status(call.company_id, call.to_entity,
                                                    call.picked))
        IN  /\ ret.last_interaction_ts = PairLastTs
            /\ ret.relationship_strength =
                  RoundScaled(net.pts + intensity.pts + rec.pts + prog.pts,
                              rs_MAX_NETWORK_PTS + MAX_INTENSITY_PTS + rs_MAX_RECENCY_PTS
                                + MAX_PROGRESS_PTS)
            /\ ret.factors = net.factors \o intensity.factors \o rec.factors \o prog.factors

\* C23 witness: a call that has just returned, with two rows of the pair, the
\* later of them stored first, and a row of the same company that names
\* another investor.
C23_Witness ==
    /\ StrengthJustReturned
    /\ \E i, j \in PairRows :
          /\ i < j
          /\ interactions[j].event_ts < interactions[i].event_ts
          /\ ret.last_interaction_ts = interactions[i].event_ts
    /\ \E k \in DOMAIN interactions \ PairRows :
          /\ interactions[k].company_id = call.company_id
          /\ interactions[k].event_type \notin DOMAIN PairCounts
          /\ interactions[k].event_ts # PairLastTs

----------------------------------------------------------------------------
(* access_map.py: the neighbourhood of a stored node                       *)

\* node["meta"]: json.loads of meta_json, or {} when there is none or it does
\* not parse
NodeMeta(meta_json) ==
    IF meta_json = None \/ meta_json = "" THEN << >>
    ELSE LET r == json_loads(meta_json) IN IF r.ok THEN r.value ELSE << >>

\* dict(row) of the columns id, company_id, node_type, label, meta_json, with
\* the key meta added
NodeWithMeta(r) ==
    [ id |-> r.id, company_id |-> r.company_id, node_type |-> r.node_type,
      label |-> r.label, meta_json |-> r.meta_json, meta |-> NodeMeta(r.meta_json) ]

\* dict(row) of the columns of network_edges that the function selects
EdgeDict(e) ==
    [ id |-> e.id, company_id |-> e.company_id, from_node_id |-> e.from_node_id,
      to_node_id |-> e.to_node_id, edge_type |-> e.edge_type, weight |-> e.weight,
      meta_json |-> e.meta_json ]

\* The function with only the edges that leave the node.
NodeConnectionsOutgoingOnly(node_id, company_id) ==
    LET center_rows == SelectSeq(network_nodes,
                                 LAMBDA r : r.id = node_id /\ r.company_id = company_id)
        edges_rows == SelectSeq(network_edges,
                                LAMBDA e : e.company_id = company_id /\ e.from_node_id = node_id)
        connected_ids == { edges_rows[i].to_node_id : i \in DOMAIN edges_rows } \ { node_id }
        conn_rows == SelectSeq(network_nodes, LAMBDA r : r.id \in connected_ids)
    IN  IF center_rows = <<>>
        THEN [ center |-> None, connections |-> <<>>, edges |-> <<>> ]
        ELSE [ center |-> NodeWithMeta(center_rows[1]),
               connections |-> [ i \in DOMAIN conn_rows |-> NodeWithMeta(conn_rows[i]) ],
               edges |-> [ i \in DOMAIN edges_rows |-> EdgeDict(edges_rows[i]) ] ]

\* get_node_connections.  The connected nodes are selected by id alone
\* (WHERE id IN (...)), in the order of the table.
get_node_connections(node_id, company_id) ==
    LET center_rows == SelectSeq(network_nodes,
                                 LAMBDA r : r.id = node_id /\ r.company_id = company_id)
        edges_rows == SelectSeq(network_edges,
                                LAMBDA e : /\ e.company_id = company_id
                                           /\ (e.from_node_id = node_id \/ e.to_node_id = node_id))
        connected_ids ==
            ({ edges_rows[i].from_node_id : i \in DOMAIN edges_rows }
               \cup { edges_rows[i].to_node_id : i \in DOMAIN edges_rows }) \ { node_id }
        conn_rows == SelectSeq(network_nodes, LAMBDA r : r.id \in connected_ids)
    IN  IF center_rows = <<>>
        THEN [ center |-> None, connections |-> <<>>, edges |-> <<>> ]
        ELSE [ center |-> NodeWithMeta(center_rows[1]),
               connections |-> [ i \in DOMAIN conn_rows |-> NodeWithMeta(conn_rows[i]) ],
               edges |-> [ i \in DOMAIN edges_rows |-> EdgeDict(edges_rows[i]) ] ]

----------------------------------------------------------------------------
(* The solar-network API on the graphs that builds have stored.  A read    *)
(* changes no table: it is explored as the last step of a behaviour.       *)

InitSolar ==
    /\ investors = <<invA, invB, invC, invZ>>
    /\ connections \in AccessMapTables
    /\ interactions = <<>>
    /\ status_history = <<>>
    /\ relationships = <<>>
    /\ NoForecastRows
    /\ NoGraphRows
    /\ now = StartDay
    /\ call = NoCall
    /\ ret = NoCall

\* GET /api/companies/<company_id>/solar-network/<node_id>
GetNodeConnections ==
    /\ call.op # "get_node_connections"
    /\ \E company_id \in CompanyIds, node_id \in 1..(sqlite_sequence.network_nodes + 1) :
        \E r \in { get_node_connections(node_id, company_id) } :
            /\ call' = [ op |-> "get_node_connections", node_id |-> node_id,
                         company_id |-> company_id ]
            /\ ret' = r
    /\ UNCHANGED <<investors, connections, interactions, status_history, relationships,
                   forecastVars, graphVars, now>>

NextSolar ==
    \/ call.op # "get_node_connections" /\ BuildAccessMapBegin
    \/ call.op # "get_node_connections" /\ BuildAccessMapFinish
    \/ GetNodeConnections

SpecSolar == InitSolar /\ [][NextSolar]_vars

\* The stored nodes with the id and the company of the latest read.
CenterRows ==
    { i \in DOMAIN network_nodes : /\ network_nodes[i].id = call.node_id
                                   /\ network_nodes[i].company_id = call.company_id }

\* The ids of the stored nodes, other than the center, at the other end of an
\* edge of the company that starts or ends at the center.
NeighbourIds ==
    { network_nodes[i].id : i \in DOMAIN network_nodes } \cap
    { n \in 0..MaxNodeId + 1 :
        /\ n # call.node_id
        /\ \E j \in DOMAIN network_edges :
              /\ network_edges[j].company_id = call.company_id
              /\ \/ network_edges[j].from_node_id = call.node_id /\ network_edges[j].to_node_id = n
                 \/ network_edges[j].to_node_id = call.node_id /\ network_edges[j].from_node_id = n }

\* C24: get_node_connections(node_id, company_id) returns the node as center
\* with exactly the nodes joined to it by an edge of the company in either
\* direction, each once and the center not among them, and the edges that
\* touch it; when node_id is no node of the company it returns center None,
\* no connections and no edges.
C24_NodeConnectionsAreTheNeighbours ==
    call.op = "get_node_connections" =>
        IF CenterRows = {}
        THEN ret = [ center |-> None, connections |-> <<>>, edges |-> <<>> ]
        ELSE /\ ret.center.id = call.node_id
             /\ ret.center.company_id = call.company_id
             /\ \E i \in CenterRows : /\ ret.center.label = network_nodes[i].label
                                      /\ ret.center.node_type = network_nodes[i].node_type
             /\ { ret.connections[i].id : i \in DOMAIN ret.connections } = NeighbourIds
             /\ \A i, j \in DOMAIN ret.connections :
                   ret.connections[i].id = ret.connections[j].id => i = j
             /\ \A i \in DOMAIN ret.connections :
                   \E k \in DOMAIN network_nodes :
                      /\ network_nodes[k].id = ret.connections[i].id
                      /\ network_nodes[k].label = ret.connections[i].label
                      /\ network_nodes[k].node_type = ret.connections[i].node_type
             /\ { ret.edges[i].id : i \in DOMAIN ret.edges } =
                   { network_edges[j].id : j \in
                       { k \in DOMAIN network_edges :
                           /\ network_edges[k].company_id = call.company_id
                           /\ \/ network_edges[k].from_node_id = call.node_id
                              \/ network_edges[k].to_node_id = call.node_id } }

\* C24 witness: a read of a person node that an investor's edge enters and
\* that an edge to an org leaves, while the graph of the other company is
\* stored as well.
C24_Witness ==
    /\ call.op = "get_node_connections"
    /\ CenterRows # {}
    /\ ret.center.node_type = NODE_TYPE_PERSON
    /\ \E i, j \in DOMAIN ret.edges :
          /\ ret.edges[i].to_node_id = call.node_id
          /\ ret.edges[j].from_node_id = call.node_id
    /\ Len(ret.connections) >= 2
    /\ \E k \in DOMAIN network_nodes : network_nodes[k].company_id # call.company_id

----------------------------------------------------------------------------
(* The intensity points as a function of the event counts                  *)

\* The most events of one type in a call
MaxEventCount == 4

\* The event types that score, and one that does not.
IntensityEventTypes ==
    { "meeting_completed", "email_reply", "doc_shared", "term_sheet_received",
      "term_sheet_signed", "commitment_made", "investment_closed", "note" }

\* The counts as _load_events_for_pair returns them: a dict with the event
\* types that occurred.  Meetings and replies up to MaxEventCount, the other
\* types up to 2.
EventDicts ==
    LET few == { "doc_shared", "term_sheet_received", "term_sheet_signed",
                 "commitment_made", "investment_closed", "note" }
        full == { f \in [ IntensityEventTypes -> 0..MaxEventCount ] :
                    \A et \in few : f[et] <= 2 }
    IN  { [ et \in { t \in IntensityEventTypes : f[t] > 0 } |-> f[et] ] : f \in full }

InitIntensity ==
    /\ investors = <<>>
    /\ connections = <<>>
    /\ interactions = <<>>
    /\ status_history = <<>>
    /\ relationships = <<>>
    /\ NoForecastRows
    /\ NoGraphRows
    /\ now = StartDay
    /\ call = NoCall
    /\ ret = NoCall

\* _intensity_points(events, factors) on an empty list of factors
ComputeIntensity ==
    /\ call = NoCall
    /\ \E events \in EventDicts :
        /\ call' = [ op |-> "_intensity_points", events |-> events ]
        /\ ret' = _intensity_points(events)
    /\ UNCHANGED <<investors, connections, interactions, status_history, relationships,
                   forecastVars, graphVars, now>>

NextIntensity == ComputeIntensity

SpecIntensity == InitIntensity /\ [][NextIntensity]_vars

\* The count of an event type in the dict of the latest call
CallCount(et) == IF et \in DOMAIN call.events THEN call.events[et] ELSE 0

\* The dict of the latest call with one more event of type et
OneMore(et) ==
    [ t \in DOMAIN call.events \cup {et} |-> CallCount(t) + (IF t = et THEN 1 ELSE 0) ]

\* C25: the intensity points are
\* min(35, min(20, 6 meetings) + min(8, 2 replies) + min(5, 2.5 docs)
\*          + min(10, 10 commitments)),
\* docs counting doc_shared, term_sheet_received and term_sheet_signed and
\* commitments counting commitment_made and investment_closed; one more event
\* of any type never lowers them.  In half points.
C25_IntensityIsCappedSumAndMonotone ==
    call.op = "_intensity_points" =>
        LET meetings == CallCount("meeting_completed")
            replies == CallCount("email_reply")
            docs == CallCount("doc_shared") + CallCount("term_sheet_received")
                      + CallCount("term_sheet_signed")
            commitments == CallCount("commitment_made") + CallCount("investment_closed")
        IN  /\ ret.pts = Min(70, Min(40, 12 * meetings) + Min(16, 4 * replies)
                                   + Min(10, 5 * docs) + Min(20, 20 * commitments))
            /\ \A et \in IntensityEventTypes : _intensity_points(OneMore(et)).pts >= ret.pts

\* C25 witness: a call in which the four parts are at their caps, 43 points
\* together, and the result is the 35 of the overall cap.
C25_Witness ==
    /\ call.op = "_intensity_points"
    /\ CallCount("meeting_completed") = 4
    /\ CallCount("email_reply") = 4
    /\ CallCount("term_sheet_signed") = 2
    /\ CallCount("investment_closed") = 1
    /\ ret.pts = 2 * MAX_INTENSITY_PTS
    /\ Len(ret.factors) = 4

----------------------------------------------------------------------------
(* Scenarios of a company whose investors have a status history: the       *)
(* strength of an investor to the company context.                         *)

\* The event logs: none, and the log whose events reach the cap of the
\* intensity points, the last of them two days old.
ContextLogs == { t \in InteractionTables : Len(t) = 0 \/ Len(t) >= 10 }

InitContext ==
    /\ investors = <<invA, invB, invC, invZ>>
    /\ connections = <<>>
    /\ interactions \in ContextLogs
    /\ status_history \in StatusTables
    /\ relationships = <<>>
    /\ investor_behavior_profiles = <<>>
    /\ scenario_runs = <<>>
    /\ term_sheets = <<>>
    /\ investor_clause_patterns = <<>>
    /\ NoGraphRows
    /\ now = StartDay
    /\ call = NoCall
    /\ ret = NoCall

SpecContext == InitContext /\ [][NextScenario]_vars

StrongRelationshipLine == "Strong relationship reduces negative reactions (+supportive)"

\* C26: in run_scenario the strength of an investor to the company context
\* (org key company:<id>, no shared counts) never exceeds 55 while the status
\* history holds rows of investors only, so the rule for strengths of 70 and
\* more is applied to no forecast: no entry carries its line, and the
\* probabilities of every entry are those of the scenario rules alone.  The
\* relationships rows that the runs store carry the same strengths.
C26_ContextStrengthBelowDampening ==
    ScenarioRan =>
        /\ \A e \in Range(ret.investors) :
              /\ e.relationship_strength <= 55
              /\ StrongRelationshipLine \notin Range(e.factors)
              /\ e.probabilities =
                    ReactionProbabilities(ret.scenario_type, e.behavior_axes, 0).probabilities
        /\ \A r \in Range(relationships) :
              r.to_type = "org" => r.relationship_strength <= 55

\* C26 witness: a run that returned the strength 55 for an investor whose
\* latest status is invested.
C26_Witness ==
    /\ ScenarioRan
    /\ \E e \in Range(ret.investors) :
          /\ e.relationship_strength = 55
          /\ \E i \in LatestStatusRows(call.company_id, Entity("investor", e.investor_id, None)) :
                status_history[i].status = "invested"

----------------------------------------------------------------------------
(* The guidance on control terms: the probabilities over all inputs and    *)
(* the guidance of whole runs.                                             *)

NextGuidance ==
    \/ Tick
    \/ ComputeReaction
    \/ ~ReactionRan /\ RunScenario

SpecGuidance == InitScenario /\ [][NextGuidance]_vars

ControlGuidancePrefix == "Investors likely to push for control terms: "

\* The line begins with the prefix of the guidance on control terms.
IsControlGuidance(line) ==
    /\ Len(line) >= Len(ControlGuidancePrefix)
    /\ SubSeq(line, 1, Len(ControlGuidancePrefix)) = ControlGuidancePrefix

\* The fraction is below 0.2.
BelowOneFifth(f) == 5 * f.num < f.den

\* C27: for every scenario type, axis scores and relationship strength the
\* normalized probability of control_push is below 0.2, and no run of
\* run_scenario gives the guidance line on investors likely to push for
\* control terms.
C27_ControlPushStaysBelowGuidanceThreshold ==
    /\ ReactionRan => BelowOneFifth(ret.probabilities.control_push)
    /\ ScenarioRan =>
          /\ \A e \in Range(ret.investors) : BelowOneFifth(e.probabilities.control_push)
          /\ \A i \in DOMAIN ret.guidance : ~IsControlGuidance(ret.guidance[i])

\* C27 witness: the probabilities with control_push at its greatest, 0.15 of
\* 1.15: a downside scenario, the control rule alone.
C27_Witness ==
    /\ ReactionRan
    /\ call.scenario_type = "missed_revenue"
    /\ call.axis_scores.control_orientation >= 60
    /\ call.relationship_strength < 70
    /\ ret.probabilities.control_push = Fraction(1500, 11500)
    /\ Len(ret.factors) = 1

----------------------------------------------------------------------------
(* The linkedin_urls of merged connections                                 *)

\* C28: if any connection merged into a candidate carries a linkedin_url
\* that equals, ignoring case, the linkedin_url of an investor of the
\* company, the candidate is not returned, whichever of the merged
\* connections was seen first: no connection of a returned person carries an
\* investor's linkedin_url.
C28_NoMergedConnectionHasExistingUrl ==
    PipelineRan =>
        \A e \in Range(ret.suggested_list) :
            \A i \in ScoredOfPerson(normalize_name(e.name)) :
                LET url == OrEmpty(CallScored[i].candidate.linkedin_url)
                IN  url # "" =>
                        \A inv \in CompanyInvestorRows :
                            Lower(url) # Lower(OrEmpty(inv.linkedin_url))

----------------------------------------------------------------------------
(* The episode parser on logs with timestamps that do not parse            *)

\* The longest log passed to the parser
MaxLogLen == 4

\* Rows with an event type of the parser and a timestamp: a day, or one that
\* does not parse (None, '', text that fromisoformat rejects).
ParserRows ==
    { [ event_type |-> et, event_ts |-> ts ] :
        et \in { "intro_sent", "meeting_completed", "declined", "investment_closed" },
        ts \in { NoTs, StartDay, StartDay + 1 } }

\* The rows of a log whose timestamps parse, in the order of the log.
ParsedRows(rows) == SelectSeq(rows, LAMBDA r : _parse_ts(r.event_ts) # NoTs)

\* The log is in the order of time: no row with a timestamp comes before a
\* row with an earlier one.  Rows without a timestamp may stand anywhere.
Chronological(rows) ==
    \A i, j \in DOMAIN rows :
        (i < j /\ _parse_ts(rows[i].event_ts) # NoTs /\ _parse_ts(rows[j].event_ts) # NoTs)
            => _parse_ts(rows[i].event_ts) <= _parse_ts(rows[j].event_ts)

ChronologicalLogs ==
    UNION { { rows \in [ 1..n -> ParserRows ] : Chronological(rows) } : n \in 0..MaxLogLen }

InitEpisodes ==
    /\ investors = <<>>
    /\ connections = <<>>
    /\ interactions = <<>>
    /\ status_history = <<>>
    /\ relationships = <<>>
    /\ NoForecastRows
    /\ NoGraphRows
    /\ now = StartDay
    /\ call = NoCall
    /\ ret = NoCall

\* _episodes_from_interactions(rows)
ParseEpisodes ==
    /\ call = NoCall
    /\ \E rows \in ChronologicalLogs :
        /\ call' = [ op |-> "_episodes_from_interactions", rows |-> rows ]
        /\ ret' = _episodes_from_interactions(rows)
    /\ UNCHANGED <<investors, connections, interactions, status_history, relationships,
                   forecastVars, graphVars, now>>

NextEpisodes == ParseEpisodes

SpecEpisodes == InitEpisodes /\ [][NextEpisodes]_vars

\* The number of rows of the latest call with an event type in types
RowsOfTypes(types) ==
    Cardinality({ i \in DOMAIN call.rows : call.rows[i].event_type \in types })

\* C29: for a log in the order of time the episodes have start <= end, no
\* episode begins before the one before it has ended, and there are at most
\* as many episodes as intro_sent events and as decision events.  A row whose
\* timestamp does not parse is counted in the event counts and does nothing
\* else: the episodes are those of the log without such rows.
C29_EpisodesAreOrderedAndBounded ==
    call.op = "_episodes_from_interactions" =>
        LET eps == ret.episodes
        IN  /\ \A i \in DOMAIN eps : /\ eps[i].start_ts # NoTs
                                     /\ eps[i].start_ts <= eps[i].end_ts
            /\ \A i \in DOMAIN eps : i < Len(eps) => eps[i].end_ts <= eps[i + 1].start_ts
            /\ Len(eps) <= RowsOfTypes({ "intro_sent" })
            /\ Len(eps) <= RowsOfTypes(DecisionEvents)
            /\ \A r \in ParserRows :
                  EventCount(ret.event_counts, r.event_type) = RowsOfTypes({ r.event_type })
            /\ eps = _episodes_from_interactions(ParsedRows(call.rows)).episodes

\* C29 witness: a log with one episode that ends a day after its start, whose
\* first row is an intro_sent without a timestamp and which holds a decision
\* without a timestamp before its last row.
C29_Witness ==
    /\ call.op = "_episodes_from_interactions"
    /\ Len(call.rows) >= 3
    /\ Len(ret.episodes) = 1
    /\ ret.episodes[1].start_ts < ret.episodes[1].end_ts
    /\ call.rows[1] = [ event_type |-> "intro_sent", event_ts |-> NoTs ]
    /\ \E i \in DOMAIN call.rows :
          /\ call.rows[i].event_type \in DecisionEvents
          /\ call.rows[i].event_ts = NoTs
          /\ i < Len(call.rows)

----------------------------------------------------------------------------
(* Requests that run compute_relationship_strength at the same time.  Each *)
(* request has a connection of its own (get_db); its SELECTs run outside   *)
(* a transaction, its UPDATE or INSERT opens one that db.commit() ends.    *)
(* In these behaviours `call` holds the position of every request and      *)
(* `ret` what each returned last.                                          *)

\* The most requests in progress at a time
MaxRequests == 2

Requests == 1..MaxRequests

Idle == [ pc |-> "idle" ]

\* The pairs that the requests compute: an investor and a candidate, an
\* investor and the company context.
RacePairs ==
    { InvestorCandidateEntities(1, Candidate("Jane Doe", "Acme Capital", "VP", "NYC", "in/jane")),
      << Entity("investor", 1, None), Entity("org", NoId, "company:1") >> }

InitRace ==
    /\ investors = <<invA, invB, invC, invZ>>
    /\ connections = <<>>
    /\ interactions = <<>>
    /\ status_history = <<>>
    /\ relationships = <<>>
    /\ NoForecastRows
    /\ NoGraphRows
    /\ now = StartDay
    /\ call = [ op |-> "requests", at |-> [ p \in Requests |-> Idle ] ]
    /\ ret = [ p \in Requests |-> NoCall ]

\* fetchone() of the SELECT of the existing row: its id, or NoId (None)
SelectExistingId(company_id, from_entity, to_entity) ==
    LET existing == ExistingRelationships(company_id, from_entity, to_entity)
    IN  IF existing = {} THEN NoId
        ELSE relationships[CHOOSE i \in existing : \A j \in existing : i <= j].id

\* UPDATE relationships SET ... WHERE id = ?
UpdateRelationshipById(rels, id, result, updated_at) ==
    [ i \in DOMAIN rels |->
        IF rels[i].id = id
        THEN [ rels[i] EXCEPT !.relationship_strength = result.relationship_strength,
                              !.strength_factors = json_dumps(result.factors),
                              !.last_interaction_ts = result.last_interaction_ts,
                              !.updated_at = updated_at ]
        ELSE rels[i] ]

\* INSERT INTO relationships (...) VALUES (...)
InsertRelationship(rels, company_id, from_entity, to_entity, result, updated_at) ==
    Append(rels,
           [ id |-> Len(rels) + 1,
             company_id |-> company_id,
             from_type |-> from_entity.type, from_id |-> from_entity.id,
             from_key |-> from_entity.key,
             to_type |-> to_entity.type, to_id |-> to_entity.id,
             to_key |-> to_entity.key,
             relationship_strength |-> result.relationship_strength,
             strength_factors |-> json_dumps(result.factors),
             last_interaction_ts |-> result.last_interaction_ts,
             updated_at |-> updated_at ])

\* A request runs compute_relationship_strength up to the SELECT of the
\* existing row: the points are computed, the timestamp is taken, the row of
\* the key is looked up.
StrengthSelect(p) ==
    /\ call.at[p] = Idle
    /\ \E company_id \in {1}, pair \in RacePairs, shared_investors_count \in { 0, 2 } :
        \E result \in { StrengthResult(company_id, pair[1], pair[2],
                                       shared_investors_count, 0, 0) } :
            call' = [ call EXCEPT !.at[p] =
                        [ pc |-> "selected", company_id |-> company_id,
                          from_entity |-> pair[1], to_entity |-> pair[2],
                          result |-> result, updated_at |-> now,
                          row |-> SelectExistingId(company_id, pair[1], pair[2]) ] ]
    /\ UNCHANGED <<investors, connections, interactions, status_history, relationships,
                   forecastVars, graphVars, now, ret>>

\* The request goes on: the UPDATE of the row it found, or the INSERT when it
\* found none, the commit and the return.
StrengthWrite(p) ==
    /\ call.at[p].pc = "selected"
    /\ LET c == call.at[p]
       IN  /\ relationships' =
                IF c.row # NoId
                THEN UpdateRelationshipById(relationships, c.row, c.result, c.updated_at)
                ELSE InsertRelationship(relationships, c.company_id, c.from_entity,
                                        c.to_entity, c.result, c.updated_at)
           /\ ret' = [ ret EXCEPT ![p] = c.result ]
    /\ call' = [ call EXCEPT !.at[p] = Idle ]
    /\ UNCHANGED <<investors, connections, interactions, status_history,
                   forecastVars, graphVars, now>>

NextRace ==
    \/ Tick
    \/ \E p \in Requests : StrengthSelect(p)
    \/ \E p \in Requests : StrengthWrite(p)

SpecRace == InitRace /\ [][NextRace]_vars

\* C30: when two requests compute the strength of the same key and each
\* SELECTs the existing row before the other has committed its INSERT, the
\* relationships table still holds at most one row of the key.
C30_OneRowPerKeyUnderInterleaving ==
    \A i, j \in DOMAIN relationships :
        RelationshipKey(relationships[i]) = RelationshipKey(relationships[j]) => i = j

====
